---- MODULE Spec2Model ----
(***************************************************************************)
(* Model of fw/m29f160xt.c: the bit-banged driver of the M29F160xT /       *)
(* MX29F800x parallel flash (read, program, erase, id, completion poll).   *)
(*                                                                         *)
(* A uint32_t is a pair <<high half, low half>> of 16-bit numbers, which   *)
(* is also how the bus is wired: the low half is the low flash device, the *)
(* high half the high device.  Addresses inside the erase engine are plain *)
(* integers (they stay far below 2^31 within the bounds used here).        *)
(***************************************************************************)
EXTENDS Integers, Sequences, FiniteSets, TLC

VARIABLES
    ee_mode,         \* bus width mode (EE_MODE_32 / 16_LOW / 16_HIGH)
    ee_cmd_mask,     \* command mask, uint32_t
    ee_status,       \* status of the last program / erase
    ee_last_access,  \* tick of the last ee_cmd(), 0 = none
    ee_enabled,      \* drivers enabled
    gpio,            \* pin state of address / data / OE# / WE#
    irq_masked,      \* usb_mask_interrupts() in force
    flash,           \* the flash devices on the bus
    now,             \* timer_tick_get(), in microseconds
    board_rev,       \* BOARD_REV of the build
    bus,             \* bus cycles of the operation that ran last
    ret,             \* what the operation that ran last was given and returned
    mon,             \* locals of a stepped ee_wait_for_done_status()
    snoop,           \* locals of a stepped ee_snoop()
    nops             \* operations run so far

vars == <<ee_mode, ee_cmd_mask, ee_status, ee_last_access, ee_enabled, gpio,
          irq_masked, flash, now, board_rev, bus, ret, mon, snoop, nops>>

-----------------------------------------------------------------------------
(* Bounds of the model *)

MaxOps == 2          \* operations per behaviour
MaxCount == 2        \* longest accepted read / write buffer, in words
MaxPolls == 8        \* poll iterations of a stepped completion monitor
MaxIdle == 2         \* idle steps of the main loop
TickDiv == 4         \* least tick advance per poll: timeout \div TickDiv

-----------------------------------------------------------------------------
(* Fixed-width arithmetic *)

W16 == 65536

RECURSIVE AndN(_, _)
AndN(a, b) ==
    IF a = 0 \/ b = 0 THEN 0
    ELSE ((a % 2) * (b % 2)) + 2 * AndN(a \div 2, b \div 2)

RECURSIVE XorN(_, _)
XorN(a, b) ==
    IF a = b THEN 0
    ELSE IF a = 0 THEN b
    ELSE IF b = 0 THEN a
    ELSE ((a + b) % 2) + 2 * XorN(a \div 2, b \div 2)

Not16(a) == (W16 - 1) - a

(* a & b of two 16-bit halves: all ones is the identity *)
And16(a, b) ==
    IF a = W16 - 1 THEN b
    ELSE IF b = W16 - 1 THEN a
    ELSE AndN(a, b)

U32(n) == <<n \div W16, n % W16>>
And32(x, y) == <<And16(x[1], y[1]), And16(x[2], y[2])>>
Xor32(x, y) == <<XorN(x[1], y[1]), XorN(x[2], y[2])>>
Not32(x) == <<Not16(x[1]), Not16(x[2])>>
Add32(x, y) ==
    LET lo == x[2] + y[2]
        hi == x[1] + y[1] + (lo \div W16)
    IN  <<hi % W16, lo % W16>>
Gt32(x, y) == x[1] > y[1] \/ (x[1] = y[1] /\ x[2] > y[2])
Zero32 == <<0, 0>>
BIT(n) == 2 ^ n
BitSet(a, n) == (a \div BIT(n)) % 2 = 1

-----------------------------------------------------------------------------
(* Program constants *)

EE_DEVICE_SIZE == 1048576

EE_MODE_ERASE == 0
EE_MODE_PROGRAM == 1

EE_STATUS_NORMAL == 0
EE_STATUS_ERASE_TIMEOUT == 1
EE_STATUS_PROG_TIMEOUT == 2
EE_STATUS_ERASE_FAILURE == 3
EE_STATUS_PROG_FAILURE == 4

EE_MODE_32 == 0
EE_MODE_16_LOW == 1
EE_MODE_16_HIGH == 2

MX_ERASE_MODE_CHIP == 0
MX_ERASE_MODE_SECTOR == 1

PROGRAM_TIMEOUT_USEC == 360
CHIP_ERASE_TIMEOUT_USEC == 32000000
SECTOR_ERASE_TIMEOUT_USEC == 1000000

ModeMask(mode) ==
    IF mode = 0 THEN <<65535, 65535>>
    ELSE IF mode = 1 THEN <<0, 65535>>
    ELSE <<65535, 0>>

(* chip_blocks[]: the last row is the default *)
chip_blocks == <<
    [cb_chipid |-> <<\h0001, \h22D2>>, cb_bbnum |-> 31, cb_bsize |-> 32, cb_ssize |-> 4, cb_map |-> \h71],
    [cb_chipid |-> <<\h0001, \h22D8>>, cb_bbnum |-> 0,  cb_bsize |-> 32, cb_ssize |-> 4, cb_map |-> \h1d],
    [cb_chipid |-> <<\h0001, \h22D6>>, cb_bbnum |-> 15, cb_bsize |-> 32, cb_ssize |-> 4, cb_map |-> \h71],
    [cb_chipid |-> <<\h0001, \h2258>>, cb_bbnum |-> 0,  cb_bsize |-> 32, cb_ssize |-> 4, cb_map |-> \h1d],
    [cb_chipid |-> <<\h00c2, \h22D6>>, cb_bbnum |-> 15, cb_bsize |-> 32, cb_ssize |-> 4, cb_map |-> \h71],
    [cb_chipid |-> <<\h00c2, \h2258>>, cb_bbnum |-> 0,  cb_bsize |-> 32, cb_ssize |-> 4, cb_map |-> \h1d],
    [cb_chipid |-> <<\h0000, \h0000>>, cb_bbnum |-> 0,  cb_bsize |-> 32, cb_ssize |-> 4, cb_map |-> \h1d] >>

RECURSIVE ChipSearch(_, _)
ChipSearch(pos, chipid) ==
    IF pos < Len(chip_blocks) /\ chip_blocks[pos].cb_chipid # chipid
    THEN ChipSearch(pos + 1, chipid)
    ELSE pos

(* The last row, whatever the id *)
DefaultChipBlock(chipid) == chip_blocks[Len(chip_blocks)]

get_chip_block_info(chipid) == chip_blocks[ChipSearch(1, chipid)]

-----------------------------------------------------------------------------
(* The flash devices.  Two 16-bit devices share address, OE# and WE#; the  *)
(* low one is on D0-D15, the high one on D16-D31.  Each follows the        *)
(* command interface of the M29F160 / MX29F800 data sheets: only A0-A10    *)
(* and DQ0-DQ7 of a command cycle are decoded, program can only clear      *)
(* bits, erase sets them, and while an operation runs every read returns   *)
(* the status register, whose DQ6 toggles on each read and whose DQ5 is    *)
(* set once the operation has failed.                                      *)

Cells == {0, 1, \h100, \h101, \hFFFFF}    \* word addresses whose content is tracked
ERASED == 65535                           \* content of an erased word

ChipRows == 1 .. 7                        \* row of chip_blocks the part on the bus is
                                          \* (7: a part the table does not list)
DevId(row) ==
    IF row < Len(chip_blocks) THEN chip_blocks[row].cb_chipid
    ELSE <<\h0020, \h22C4>>

(* Physical erase sectors of the part, from the data sheet layout that the *)
(* comments of chip_blocks[] give: top boot 16K 4K 4K 8K, bottom boot      *)
(* 8K 4K 4K 16K, every other block 32K words.                              *)
BootLayout(cb) ==
    IF cb.cb_map = \h71
    THEN << <<0, 16384>>, <<16384, 4096>>, <<20480, 4096>>, <<24576, 8192>> >>
    ELSE << <<0, 8192>>, <<8192, 4096>>, <<12288, 4096>>, <<16384, 16384>> >>

(* The erase sector of a part of geometry cb that holds word address a *)
SectorOf(cb, a) ==
    LET blk == a \div 32768
        off == a % 32768
        lay == BootLayout(cb)
        i   == CHOOSE j \in 1 .. 4 : lay[j][1] <= off /\ off < lay[j][1] + lay[j][2]
    IN  IF blk = cb.cb_bbnum
        THEN [start |-> blk * 32768 + lay[i][1], size |-> lay[i][2]]
        ELSE [start |-> blk * 32768, size |-> 32768]

DevSector(row, a) == SectorOf(chip_blocks[row], a)

SectorCells(row, a) ==
    LET s == DevSector(row, a)
    IN  {c \in Cells : s.start <= c /\ c < s.start + s.size}

(* How one program / erase operation of the device goes: the number of     *)
(* status reads it stays busy for (-1: until it is reset), whether it      *)
(* fails (DQ5), and how many microseconds pass per status read meanwhile.  *)
SlowTick == 40000000
B_ok2  == [polls |-> 2,  dq5 |-> FALSE, dt |-> 1,        weak |-> FALSE]
B_fail == [polls |-> -1, dq5 |-> TRUE,  dt |-> 1,        weak |-> FALSE]
B_slow == [polls |-> 4,  dq5 |-> FALSE, dt |-> SlowTick, weak |-> FALSE]
(* A program operation that ends in time and leaves the bits as they were *)
B_weak == [polls |-> 2,  dq5 |-> FALSE, dt |-> 1,        weak |-> TRUE]
Ideal(beh) == ~beh.dq5 /\ beh.dt = 1 /\ ~beh.weak

Scripts == {<<>>, <<B_fail>>, <<B_slow>>}

ChipInit(mem) ==
    [st |-> "read", mem |-> mem, polls |-> 0, dq5 |-> FALSE,
     tog |-> 1, load |-> FALSE, pend |-> {}]

Cell(mem, a) == IF a \in Cells THEN mem[a] ELSE ERASED

ChipWrite(c, row, a, d, beh) ==
    LET cmd == d % 256
        ca  == a % 2048
        to(s) == [c EXCEPT !.st = s]
        start(pend, load) ==
            [c EXCEPT !.st = "busy", !.polls = beh.polls, !.dq5 = beh.dq5,
                      !.tog = 1, !.load = load, !.pend = pend]
    IN  IF c.st = "busy" THEN
            IF c.load THEN
                IF cmd = \h30
                THEN [c EXCEPT !.pend = @ \cup SectorCells(row, a)]
                ELSE [c EXCEPT !.st = "read", !.pend = {}, !.load = FALSE]
            ELSE IF cmd = \hF0 /\ c.dq5
            THEN [c EXCEPT !.st = "read", !.pend = {}, !.dq5 = FALSE, !.polls = 0]
            ELSE c
        ELSE IF c.st = "pgm" THEN
            [start({}, FALSE) EXCEPT
                !.mem = IF a \in Cells /\ ~beh.dq5 /\ ~beh.weak
                        THEN [@ EXCEPT ![a] = AndN(@, d)] ELSE @]
        ELSE IF cmd = \hF0 THEN to("read")
        ELSE IF c.st = "read" THEN
            IF ca = \h555 /\ cmd = \hAA THEN to("u1") ELSE c
        ELSE IF c.st = "u1" THEN
            IF ca = \h2AA /\ cmd = \h55 THEN to("u2") ELSE to("read")
        ELSE IF c.st = "u2" THEN
            IF ca = \h555 /\ cmd = \hA0 THEN to("pgm")
            ELSE IF ca = \h555 /\ cmd = \h80 THEN to("e1")
            ELSE IF ca = \h555 /\ cmd = \h90 THEN to("auto")
            ELSE to("read")
        ELSE IF c.st = "e1" THEN
            IF ca = \h555 /\ cmd = \hAA THEN to("e2") ELSE to("read")
        ELSE IF c.st = "e2" THEN
            IF ca = \h2AA /\ cmd = \h55 THEN to("e3") ELSE to("read")
        ELSE IF c.st = "e3" THEN
            IF ca = \h555 /\ cmd = \h10 THEN start(Cells, FALSE)
            ELSE IF cmd = \h30 THEN start(SectorCells(row, a), TRUE)
            ELSE to("read")
        ELSE c

ChipRead(c, row, a) ==
    IF c.st = "busy" THEN
        IF c.polls = 0 THEN
            LET mem2 == [x \in Cells |-> IF x \in c.pend THEN ERASED ELSE c.mem[x]]
            IN  [c |-> [c EXCEPT !.st = "read", !.mem = mem2, !.pend = {},
                                 !.load = FALSE, !.dq5 = FALSE],
                 v |-> Cell(mem2, a)]
        ELSE
            [c |-> [c EXCEPT !.polls = IF @ > 0 THEN @ - 1 ELSE @,
                             !.tog = 1 - @, !.load = FALSE],
             v |-> c.tog * 64 + (IF c.dq5 THEN 32 ELSE 0)]
    ELSE IF c.st = "auto" THEN
        [c |-> c, v |-> IF a % 2 = 0 THEN DevId(row)[1] ELSE DevId(row)[2]]
    ELSE [c |-> c, v |-> Cell(c.mem, a)]

(* Both parts see every cycle: l and h are the low and the high part after it *)
Latched(f, l, h) ==
    [f |-> [f EXCEPT !.lo = l, !.hi = h],
     started |-> \/ (l.st = "busy" /\ f.lo.st # "busy")
                 \/ (h.st = "busy" /\ f.hi.st # "busy")]

FlashWrite(f, a, x, beh) ==
    Latched(f, ChipWrite(f.lo, f.row, a, x[2], beh),
            ChipWrite(f.hi, f.row, a, x[1], beh))

Answered(f, l, h) == [f |-> [f EXCEPT !.lo = l.c, !.hi = h.c], v |-> <<h.v, l.v>>]

FlashRead(f, a) == Answered(f, ChipRead(f.lo, f.row, a), ChipRead(f.hi, f.row, a))

-----------------------------------------------------------------------------
(* Platform primitives.  Every operator below takes the machine m: the     *)
(* driver's statics, the pins, the devices and the clock, as one record.   *)

timer_tick_get(m) == m.now
timer_delay_usec(m, usec) == [m EXCEPT !.now = @ + usec]
usb_mask_interrupts(m) == [m EXCEPT !.irq = TRUE]
(* unmasks counts the calls, to tell one masked window from the next *)
usb_unmask_interrupts(m) == [m EXCEPT !.irq = FALSE, !.unmasks = @ + 1]

(* The 20 address pins carry addr's low 20 bits in both pin layouts *)
Phys(addr) == (addr[1] % 16) * W16 + addr[2]

(* The pin primitives act on the pin state g, a part of the machine *)
address_output(g, addr) == [g EXCEPT !.a_odr = Phys(addr)]
address_output_enable(g) == [g EXCEPT !.a_out = TRUE]
address_output_disable(g, rev) ==
    IF rev = 1
    THEN [g EXCEPT !.a_out = FALSE, !.a_odr = 0]
    ELSE [g EXCEPT !.a_out = FALSE]
data_output(g, data) == [g EXCEPT !.d_odr = data]
data_output_enable(g) == [g EXCEPT !.d_out = TRUE]
data_output_disable(g) == data_output([g EXCEPT !.d_out = FALSE], Zero32)
we_output(g, value) == [g EXCEPT !.we = value]
oe_output(g, value) == [g EXCEPT !.oe = value]
oe_output_enable(g) == [g EXCEPT !.oe_out = TRUE]
oe_output_disable(g) == [g EXCEPT !.oe_out = FALSE]

(* One bus cycle as the trace keeps it: the address and data passed, the   *)
(* data x on the bus, and the pins g, the interrupt mask and ee_cmd_mask   *)
(* in the middle of the cycle                                              *)
Cycle(k, addr, data, x, m, g) ==
    [k |-> k, a |-> addr, d |-> data, x |-> x, irq |-> m.irq, mask |-> m.mask,
     pins |-> g, unmasks |-> m.unmasks]

(* ee_read_word: one read cycle.  ReadPins is the pins up to data_input(), *)
(* ReadCycle the rest once the parts have answered r; v is *data           *)
ReadPins(g, addr) ==
    oe_output_enable(oe_output(address_output_enable(address_output(g, addr)), 0))

ReadCycle(m, addr, g, r) ==
    [m |-> [m EXCEPT !.gpio = oe_output_disable(oe_output(g, 1)),
                     !.flash = r.f,
                     !.now = @ + m.dt,
                     !.bus = Append(@, Cycle("R", addr, r.v, r.v, m, g))],
     v |-> r.v]

ReadAt(m, addr, g) == ReadCycle(m, addr, g, FlashRead(m.flash, g.a_odr))

ee_read_word(m, addr) == ReadAt(m, addr, ReadPins(m.gpio, addr))

(* ee_write_word: one write cycle.  WritePins is the pins while WE# is     *)
(* low, WriteCycle the rest: the parts latch on the rising WE# and answer  *)
(* w, following the behaviour beh if that starts an operation              *)
WritePins(g, addr, x) ==
    data_output_enable(
        data_output(
            we_output(oe_output_enable(oe_output(address_output(g, addr), 1)), 0),
            x))

Beh(m) == IF m.script = <<>> THEN B_ok2 ELSE Head(m.script)

WriteCycle(m, addr, data, g, beh, w) ==
    [m EXCEPT !.gpio = oe_output_disable(data_output_disable(we_output(g, 1))),
              !.flash = w.f,
              !.script = IF w.started /\ @ # <<>> THEN Tail(@) ELSE @,
              !.dt = IF w.started THEN beh.dt ELSE @,
              !.ideal = @ /\ (w.started => Ideal(beh)),
              !.bus = Append(@, Cycle("W", addr, data, g.d_odr, m, g))]

WriteAt(m, addr, data, g, beh) ==
    CHOOSE m1 \in {WriteCycle(m, addr, data, g, beh, w) :
                       w \in {FlashWrite(m.flash, g.a_odr, g.d_odr, beh)}} : TRUE

ee_write_word(m, addr, data) ==
    WriteAt(m, addr, data, WritePins(m.gpio, addr, And32(data, m.mask)), Beh(m))

(* The command word as the caller passed it *)
CmdWordAsPassed(mode, cmd) == cmd

(* ee_cmd: a command, with the unlock sequence where the command needs it *)
CmdWord(mode, cmd) ==
    IF mode \in {EE_MODE_32, EE_MODE_16_HIGH} /\ cmd[1] = 0
    THEN <<cmd[2], cmd[2]>>
    ELSE cmd

CmdWrites(m, addr, cmd) ==
    IF cmd[2] \in {\h98, \hf0, \hb0, \h30}
    THEN ee_write_word(m, addr, cmd)
    ELSE usb_unmask_interrupts(
             ee_write_word(
                 ee_write_word(
                     ee_write_word(usb_mask_interrupts(m),
                                   <<0, \h555>>, <<\h00aa, \h00aa>>),
                     <<0, \h2aa>>, <<\h0055, \h0055>>),
                 addr, cmd))

ee_cmd(m, addr, cmd) ==
    timer_delay_usec(
        CmdWrites([m EXCEPT !.last = timer_tick_get(m)], addr, CmdWord(m.mode, cmd)),
        2)

ee_read_mode(m) == ee_cmd(m, <<0, \h555>>, <<\h00f0, \h00f0>>)

(* m1 is the machine between the two commands *)
ee_status_clear(m) ==
    CHOOSE m2 \in {ee_read_mode(m1) : m1 \in {ee_cmd(m, Zero32, <<\h00f0, \h00f0>>)}} :
        TRUE

EnablePins(g) ==
    data_output_disable(
        oe_output_enable(
            oe_output(we_output(address_output_enable(address_output(g, Zero32)), 1),
                      1)))

ee_enable(m) ==
    IF m.enabled THEN m
    ELSE [ee_read_mode([m EXCEPT !.gpio = EnablePins(@), !.enabled = TRUE])
             EXCEPT !.mask = ModeMask(m.mode)]

DisablePins(g, rev) ==
    data_output_disable(address_output_disable(oe_output_disable(we_output(g, 1)), rev))

ee_disable(m) ==
    [timer_delay_usec([m EXCEPT !.gpio = DisablePins(@, m.rev)], 50)
        EXCEPT !.enabled = FALSE]

-----------------------------------------------------------------------------
(* ee_wait_for_done_status *)

(* status & (BIT(5) | BIT(5 + 16)) *)
FailBit(status) == BitSet(status[2], 5) \/ BitSet(status[1], 5)

MonStart(m) ==
    [start |-> timer_tick_get(m), usecs |-> 0, status |-> Zero32,
     lstatus |-> Zero32, same_count |-> 0, see_fail_count |-> 0, pc |-> "loop"]

(* The loop body with the return taken at the first reading equal to the   *)
(* one before it                                                           *)
MonJudgePair(st, tnow, status) ==
    [st EXCEPT !.usecs = tnow - st.start,
               !.status = status,
               !.lstatus = status,
               !.same_count = IF status = st.lstatus THEN @ + 1 ELSE 0,
               !.see_fail_count = IF status # st.lstatus /\ FailBit(status)
                                  THEN @ + 1 ELSE @,
               !.pc = IF status = st.lstatus THEN "done"
                      ELSE IF FailBit(status) /\ st.see_fail_count > 5 THEN "break"
                      ELSE "loop"]

(* One pass of the loop body once status holds the masked reading: pc is   *)
(* "done" at the return inside the loop, "break" at the break              *)
MonJudge(st, tnow, status) ==
    LET same == status = st.lstatus
        done == same /\ st.same_count >= 1
        fail == ~done /\ FailBit(status)
    IN  [st EXCEPT !.usecs = tnow - st.start,
                   !.status = status,
                   !.lstatus = status,
                   !.same_count = IF same THEN @ + 1 ELSE 0,
                   !.see_fail_count = IF fail THEN @ + 1 ELSE @,
                   !.pc = IF done THEN "done"
                          ELSE IF fail /\ st.see_fail_count > 5 THEN "break"
                          ELSE "loop"]

(* tnow is what timer_tick_get() returned, raw what ee_read_word(0) read *)
MonBody(st, tnow, raw, mask) == MonJudge(st, tnow, And32(raw, mask))

(* The loop without the test of the time *)
MonGuardNoTimeout(st, timeout_usec) == st.pc = "loop"

MonGuard(st, timeout_usec) == st.pc = "loop" /\ st.usecs < timeout_usec

(* The exit without the test of the failure bits *)
ExitStatusTimeout(status, mode) ==
    IF mode = EE_MODE_ERASE THEN EE_STATUS_ERASE_TIMEOUT ELSE EE_STATUS_PROG_TIMEOUT

(* The exit that takes every operation for an erase *)
ExitStatusErase(status, mode) ==
    IF FailBit(status) THEN EE_STATUS_ERASE_FAILURE ELSE EE_STATUS_ERASE_TIMEOUT

(* ee_status after the loop was left without the return *)
ExitStatus(status, mode) ==
    IF FailBit(status)
    THEN IF mode = EE_MODE_ERASE THEN EE_STATUS_ERASE_FAILURE
         ELSE EE_STATUS_PROG_FAILURE
    ELSE IF mode = EE_MODE_ERASE THEN EE_STATUS_ERASE_TIMEOUT
         ELSE EE_STATUS_PROG_TIMEOUT

(* What follows the loop, and the return inside it *)
MonFinish(m, st, mode) ==
    IF st.pc = "done"
    THEN [m |-> [m EXCEPT !.status = EE_STATUS_NORMAL], rc |-> 0]
    ELSE [m |-> ee_status_clear([m EXCEPT !.status = ExitStatus(st.status, mode)]),
          rc |-> 1]

(* One pass of the loop on the machine: the tick read, then the status read r *)
MonAfter(r, st, tnow, mask) == [m |-> r.m, st |-> MonBody(st, tnow, r.v, mask)]

MonStep(m, st) == MonAfter(ee_read_word(m, Zero32), st, timer_tick_get(m), m.mask)

RECURSIVE MonRun(_, _, _, _)
MonNext(p, timeout_usec, mode) == MonRun(p.m, p.st, timeout_usec, mode)

MonRun(m, st, timeout_usec, mode) ==
    IF MonGuard(st, timeout_usec)
    THEN MonNext(MonStep(m, st), timeout_usec, mode)
    ELSE MonFinish(m, st, mode)

ee_wait_for_done_status(m, timeout_usec, mode) ==
    MonRun(m, MonStart(m), timeout_usec, mode)

-----------------------------------------------------------------------------
(* Program and read *)

(* The program sequence with the interrupts let in before the data write *)
ProgramWritesOpen(m, addr, word) ==
    ee_write_word(
        usb_unmask_interrupts(
            ee_write_word(
                ee_write_word(
                    ee_write_word(usb_mask_interrupts(m),
                                  <<0, \h555>>, <<\h00aa, \h00aa>>),
                    <<0, \h2aa>>, <<\h0055, \h0055>>),
                <<0, \h555>>, <<\h00a0, \h00a0>>)),
        addr, word)

ProgramWrites(m, addr, word) ==
    usb_unmask_interrupts(
        ee_write_word(
            ee_write_word(
                ee_write_word(
                    ee_write_word(usb_mask_interrupts(m),
                                  <<0, \h555>>, <<\h00aa, \h00aa>>),
                    <<0, \h2aa>>, <<\h0055, \h0055>>),
                <<0, \h555>>, <<\h00a0, \h00a0>>),
            addr, word))

ee_program_word(m, addr, word) ==
    ee_wait_for_done_status(ProgramWrites(m, addr, word), PROGRAM_TIMEOUT_USEC,
                            EE_MODE_PROGRAM)

(* addr + count > EE_DEVICE_SIZE, in uint32_t arithmetic *)
RangeRejected(addr, count) == Gt32(Add32(addr, count), U32(EE_DEVICE_SIZE))

(* A buffer is a sequence of words; a 16-bit word e is kept as <<0, e>>.   *)
(* WordOf is the value ee_write() builds from a buffer word, OutOf the     *)
(* buffer word ee_read() stores for a value read.                          *)
WordOf(mode, e) ==
    IF mode = EE_MODE_16_LOW THEN <<0, e[2]>>
    ELSE IF mode = EE_MODE_16_HIGH THEN <<e[2], 0>>
    ELSE e

OutOf(mode, value) ==
    IF mode = EE_MODE_32 THEN value
    ELSE IF mode = EE_MODE_16_LOW THEN <<0, value[2]>>
    ELSE <<0, value[1]>>

(* ee_write's loop over the words: i is the word at hand, p what           *)
(* ee_program_word returned for it, r the read-back                        *)
RECURSIVE WriteWords(_, _, _, _, _)
Verified(r, xvalue, addr, data, i, try_count) ==
    IF xvalue # Zero32 THEN
        IF try_count < 2 /\ And32(xvalue, Not32(r.v)) = Zero32
        THEN WriteWords(r.m, addr, data, i, try_count + 1)
        ELSE [m |-> r.m, rc |-> 4]
    ELSE WriteWords(r.m, Add32(addr, <<0, 1>>), data, i + 1, 0)

ReadBack(r, mask, value, addr, data, i, try_count) ==
    Verified(r, And32(Xor32(value, r.v), mask), addr, data, i, try_count)

(* A third retry after a failure of the monitor *)
ProgrammedThreeRetries(p, value, addr, data, i, try_count) ==
    IF p.rc # 0 THEN
        IF try_count < 3
        THEN WriteWords(p.m, addr, data, i, try_count + 1)
        ELSE [m |-> p.m, rc |-> 3]
    ELSE ReadBack(ee_read_word(p.m, addr), p.m.mask, value, addr, data, i, try_count)

Programmed(p, value, addr, data, i, try_count) ==
    IF p.rc # 0 THEN
        IF try_count < 2
        THEN WriteWords(p.m, addr, data, i, try_count + 1)
        ELSE [m |-> p.m, rc |-> 3]
    ELSE ReadBack(ee_read_word(p.m, addr), p.m.mask, value, addr, data, i, try_count)

ProgramValue(m, value, addr, data, i, try_count) ==
    Programmed(ee_program_word(m, addr, value), value, addr, data, i, try_count)

WriteWords(m, addr, data, i, try_count) ==
    IF i > Len(data) THEN [m |-> ee_read_mode(m), rc |-> 0]
    ELSE ProgramValue(m, WordOf(m.mode, data[i]), addr, data, i, try_count)

(* ee_write: data holds the count words of the buffer *)
ee_write(m, addr, data, count) ==
    IF RangeRejected(addr, count) THEN [m |-> m, rc |-> 1]
    ELSE WriteWords(m, addr, data, 1, 0)

RECURSIVE ReadWords(_, _, _, _)
ReadNext(r, mode, addr, n, out) ==
    ReadWords(r.m, Add32(addr, <<0, 1>>), n - 1, Append(out, OutOf(mode, r.v)))

ReadWords(m, addr, n, out) ==
    IF n = 0 THEN [m |-> m, out |-> out]
    ELSE ReadNext(ee_read_word(m, addr), m.mode, addr, n, out)

ReadDone(r) == [m |-> usb_unmask_interrupts(r.m), rc |-> 0, out |-> r.out]

(* ee_read: out is what it stores through datap *)
ee_read(m, addr, count) ==
    IF RangeRejected(addr, count) THEN [m |-> m, rc |-> 1, out |-> <<>>]
    ELSE ReadDone(ReadWords(usb_mask_interrupts(m), addr,
                            count[1] * W16 + count[2], <<>>))

(* ee_id: low and high are the two reads in autoselect mode *)
IdParts(m, mode, a, b) ==
    IF mode = EE_MODE_16_HIGH
    THEN [m |-> m, part1 |-> b, part2 |-> a]
    ELSE [m |-> m, part1 |-> a, part2 |-> b]

IdHigh(low, high, mode) ==
    IdParts(ee_read_mode(high.m), mode,
            <<low.v[2], high.v[2]>>, <<low.v[1], high.v[1]>>)

IdLow(low, mode) == IdHigh(low, ee_read_word(low.m, <<0, 1>>), mode)

ee_id(m) ==
    IdLow(ee_read_word(ee_cmd(m, <<0, \h555>>, <<\h0090, \h0090>>), Zero32), m.mode)

(* A status read that also resets the driver's ee_status *)
ee_status_read_reset(m) ==
    [m |-> [m EXCEPT !.status = EE_STATUS_NORMAL], v |-> m.status]

(* ee_status_read: v is the value returned, the driver's ee_status *)
ee_status_read(m) ==
    [m |-> ee_read_mode(
               ee_read_word(ee_cmd(m, <<0, \h555>>, <<\h0070, \h0070>>), Zero32).m),
     v |-> m.status]

(* ee_poll: a tick is a microsecond here, as in timer_delay_usec *)
IDLE_LIMIT_USEC == 1000000

ee_poll(m) ==
    IF m.last # 0 /\ timer_tick_get(m) - m.last > IDLE_LIMIT_USEC
    THEN [ee_disable(m) EXCEPT !.last = 0]
    ELSE m

-----------------------------------------------------------------------------
(* ee_verify: the wiring test.  The levels read on the lines are those the *)
(* pull selects give, but for the lines the socket holds high or low (env) *)

Lines(n, width) == {i \in 0 .. width - 1 : BitSet(n, i)}

address_input(g, env) == (Lines(g.a_odr, 20) \ env.a_low) \cup env.a_high

data_input(g, env) ==
    ((Lines(g.d_odr[2], 16) \cup {16 + i : i \in Lines(g.d_odr[1], 16)}) \ env.d_low)
        \cup env.d_high

(* The exit without the call of ee_disable *)
VerifyDoneAsIs(m, rc) == [m |-> m, rc |-> rc]

(* fail: ee_disable(); return (rc) *)
VerifyDone(m, rc) == [m |-> ee_disable(m), rc |-> rc]

(* One pull-up pass, the levels being steady: whether it sets rc (in the  *)
(* poll loop or at the test of seen) and whether the loop breaks; a loop   *)
(* that does not break runs for 1 ms                                       *)
AddressLevels(a, d, pass) ==
    IF d # {} THEN [failed |-> TRUE, broke |-> TRUE]
    ELSE IF pass \in a
         THEN [failed |-> a # 0 .. pass, broke |-> a # 0 .. pass]
         ELSE [failed |-> TRUE, broke |-> FALSE]

AddressPass(g, env, pass) ==
    AddressLevels(address_input(g, env), data_input(g, env), pass)

DataLevels(a, d, pass) ==
    IF a # 0 .. 19 THEN [failed |-> TRUE, broke |-> TRUE]
    ELSE IF pass \in d
         THEN [failed |-> d # 0 .. pass, broke |-> d # 0 .. pass]
         ELSE [failed |-> TRUE, broke |-> FALSE]

DataPass(g, env, pass) ==
    DataLevels(address_input(g, env), data_input(g, env), pass)

(* The loops over the lines.  rc is kept from pass to pass and tested      *)
(* after the last one; what a pass leaves behind is its pull select.       *)
(* pulls lists the passes run, in order, each with the line pulled up and  *)
(* whether the pass set rc                                                 *)
PullsOf(kind, passes, failed) ==
    [i \in 1 .. Cardinality(passes) |->
        [kind |-> kind, pass |-> i - 1, failed |-> (i - 1) \in failed]]

PullUpsDone(m, g, kind, passes, broken, failed) ==
    timer_delay_usec([m EXCEPT !.gpio = g,
                               !.pulls = @ \o PullsOf(kind, passes, failed)],
                     1000 * Cardinality(passes \ broken))

DataPullUp(m, env) ==
    VerifyDone(
        PullUpsDone(m, data_output(m.gpio, U32(BIT(16) - 1)), "D", 0 .. 15,
            {pass \in 0 .. 15 :
                DataPass(data_output(m.gpio, U32(BIT(pass + 1) - 1)), env,
                         pass).broke},
            {pass \in 0 .. 15 :
                DataPass(data_output(m.gpio, U32(BIT(pass + 1) - 1)), env,
                         pass).failed}),
        IF \E pass \in 0 .. 15 :
               DataPass(data_output(m.gpio, U32(BIT(pass + 1) - 1)), env,
                        pass).failed
        THEN 1 ELSE 0)

(* The data test run whatever the address test found *)
AddressPulledOn(m, env, rc) == DataPullUp(m, env)

AddressPulled(m, env, rc) ==
    IF rc # 0 THEN VerifyDone(m, rc) ELSE DataPullUp(m, env)

AddressPullUp(m, env) ==
    AddressPulled(
        PullUpsDone(m, address_output(m.gpio, U32(BIT(20) - 1)), "A", 0 .. 19,
            {pass \in 0 .. 19 :
                AddressPass(address_output(m.gpio, U32(BIT(pass + 1) - 1)), env,
                            pass).broke},
            {pass \in 0 .. 19 :
                AddressPass(address_output(m.gpio, U32(BIT(pass + 1) - 1)), env,
                            pass).failed}),
        env,
        IF \E pass \in 0 .. 19 :
               AddressPass(address_output(m.gpio, U32(BIT(pass + 1) - 1)), env,
                           pass).failed
        THEN 1 ELSE 0)

(* The pull-down test: pass 0 with all drivers off, pass 1 with OE# high *)
StuckHigh(m, env) ==
    address_input(m.gpio, env) # {} \/ data_input(m.gpio, env) # {}

PullDownOE(m, env) ==
    IF StuckHigh(m, env) THEN VerifyDone(m, 1) ELSE AddressPullUp(m, env)

PullDown(m, env) ==
    IF StuckHigh(m, env) THEN VerifyDone(m, 1)
    ELSE PullDownOE(
             timer_delay_usec(
                 [m EXCEPT !.gpio = oe_output(oe_output_enable(@), 1)], 100),
             env)

ee_verify(m, env) == PullDown(timer_delay_usec(ee_disable(m), 100), env)

-----------------------------------------------------------------------------
(* Erase *)

(* The do-while left after its first pass *)
BootUnitFirst(cb, snum, bsize) == bsize + cb.cb_ssize * 1024

(* The do-while over the boot block's sector map *)
RECURSIVE BootUnit(_, _, _)
BootUnit(cb, snum, bsize) ==
    IF BitSet(cb.cb_map, snum + 1) THEN bsize + cb.cb_ssize * 1024
    ELSE IF snum + 1 < 8 THEN BootUnit(cb, snum + 1, bsize + cb.cb_ssize * 1024)
    ELSE bsize + cb.cb_ssize * 1024

(* bsize of one pass of the block loop *)
UnitSize(cb, addr) ==
    IF addr \div (cb.cb_bsize * 1024) = cb.cb_bbnum
    THEN BootUnit(cb, (addr % (cb.cb_bsize * 1024)) \div (cb.cb_ssize * 1024), 0)
    ELSE cb.cb_bsize * 1024

(* addr & addr_mask, with addr_mask = ~(bsize - 1) *)
EraseAddr(addr, bsize) == addr - AndN(addr, bsize - 1)

SECTOR_ERASE_CMD == <<\h0030, \h0030>>

(* The block loop: units lists, per sector erase command written, the     *)
(* address written, the bsize computed, and addr at that time             *)
RECURSIVE SectorQueue(_, _, _, _, _, _)
Queued(m, cb, addr, len, timeout, units, bsize) ==
    IF len < bsize
    THEN [m |-> m, addr |-> addr, len |-> 0, timeout |-> timeout, units |-> units]
    ELSE SectorQueue(m, cb, addr + bsize, len - bsize, timeout, units)

QueueUnit(m, cb, addr, len, timeout, units, bsize) ==
    Queued(ee_write_word(m, U32(EraseAddr(addr, bsize)), SECTOR_ERASE_CMD),
           cb, addr, len, timeout + 1000000,
           Append(units, [cmd |-> EraseAddr(addr, bsize), bsize |-> bsize,
                          addr |-> addr]),
           bsize)

SectorQueue(m, cb, addr, len, timeout, units) ==
    IF len > 0
    THEN QueueUnit(m, cb, addr, len, timeout, units, UnitSize(cb, addr))
    ELSE [m |-> m, addr |-> addr, len |-> len, timeout |-> timeout, units |-> units]

(* The five writes that open an erase *)
ErasePrefix(m) ==
    ee_write_word(
        ee_write_word(
            ee_write_word(
                ee_write_word(
                    ee_write_word(usb_mask_interrupts(m),
                                  <<0, \h555>>, <<\h00aa, \h00aa>>),
                    <<0, \h2aa>>, <<\h0055, \h0055>>),
                <<0, \h555>>, <<\h0080, \h0080>>),
            <<0, \h555>>, <<\h00aa, \h00aa>>),
        <<0, \h2aa>>, <<\h0055, \h9055>>)

(* The chip erase command, or the block loop *)
EraseIssue(m, mode, cb, addr, len, units) ==
    IF mode = MX_ERASE_MODE_CHIP
    THEN [m |-> ee_write_word(m, <<0, \h555>>, <<\h0010, \h0010>>),
          addr |-> addr, len |-> 0, timeout |-> CHIP_ERASE_TIMEOUT_USEC,
          units |-> units]
    ELSE SectorQueue(m, cb, addr, len, SECTOR_ERASE_TIMEOUT_USEC, units)

(* The outer loop: q is what the commands of one pass left, w what the     *)
(* completion monitor returned                                             *)
RECURSIVE EraseLoop(_, _, _, _, _, _, _)
EraseWaited(w, q, mode, cb) ==
    IF w.rc # 0 THEN [m |-> w.m, rc |-> w.rc, units |-> q.units]
    ELSE EraseLoop(w.m, mode, cb, q.addr, q.len, w.rc, q.units)

EraseWait(q, mode, cb) ==
    EraseWaited(ee_wait_for_done_status(timer_delay_usec(q.m, 100), q.timeout,
                                        EE_MODE_ERASE),
                q, mode, cb)

EraseLoop(m, mode, cb, addr, len, rc, units) ==
    IF len > 0 THEN
        IF addr >= EE_DEVICE_SIZE THEN [m |-> m, rc |-> 1, units |-> units]
        ELSE EraseWait(EraseIssue(ErasePrefix(m), mode, cb, addr, len, units),
                       mode, cb)
    ELSE [m |-> m, rc |-> rc, units |-> units]

EraseDone(r, cb) ==
    [m |-> ee_read_mode(r.m), rc |-> r.rc, units |-> r.units, cb |-> cb]

EraseIdentified(id, mode, addr, len) ==
    EraseDone(EraseLoop(ee_status_clear(id.m), mode, get_chip_block_info(id.part1),
                        addr, len, 0, <<>>),
              get_chip_block_info(id.part1))

(* ee_erase with len taken as passed *)
ee_erase_len_as_passed(m, mode, addr, len) ==
    IF mode > MX_ERASE_MODE_SECTOR
    THEN [m |-> m, rc |-> 1, units |-> <<>>, cb |-> chip_blocks[Len(chip_blocks)]]
    ELSE EraseIdentified(ee_id(m), mode, addr, len)

(* ee_erase: units and cb are reported for the properties below *)
ee_erase(m, mode, addr, len) ==
    IF mode > MX_ERASE_MODE_SECTOR
    THEN [m |-> m, rc |-> 1, units |-> <<>>, cb |-> chip_blocks[Len(chip_blocks)]]
    ELSE EraseIdentified(ee_id(m), mode, addr,
                         IF len = 0 \/ mode = MX_ERASE_MODE_CHIP THEN 1 ELSE len)

-----------------------------------------------------------------------------
(* State machine: the public operations, called in any order *)

M ==
    [mode |-> ee_mode, mask |-> ee_cmd_mask, status |-> ee_status,
     last |-> ee_last_access, enabled |-> ee_enabled, gpio |-> gpio,
     irq |-> irq_masked, flash |-> flash, now |-> now, rev |-> board_rev,
     bus |-> <<>>, script |-> <<>>, dt |-> 1, ideal |-> TRUE, unmasks |-> 0,
     pulls |-> <<>>]

(* The statics, the pins, the devices and the clock take the values of m *)
Commit(m) ==
    /\ ee_mode' = m.mode
    /\ ee_cmd_mask' = m.mask
    /\ ee_status' = m.status
    /\ ee_last_access' = m.last
    /\ ee_enabled' = m.enabled
    /\ gpio' = m.gpio
    /\ irq_masked' = m.irq
    /\ flash' = m.flash
    /\ now' = m.now
    /\ board_rev' = m.rev
    /\ bus' = m.bus

MonIdle == [pc |-> "idle"]
SnoopIdle == [pc |-> "idle"]

(* What the parts hold at power-on: two erased words, the others programmed *)
PowerOnMem == [c \in Cells |-> IF c \in {\h100, \h101} THEN ERASED ELSE \h1234]

PowerOn(rows, revs) ==
    /\ ee_mode = EE_MODE_16_LOW
    /\ ee_cmd_mask = Zero32
    /\ ee_status = EE_STATUS_NORMAL
    /\ ee_last_access = 0
    /\ ee_enabled = FALSE
    /\ gpio = [we |-> 1, oe |-> 1, oe_out |-> FALSE, a_out |-> FALSE,
               d_out |-> FALSE, a_odr |-> 0, d_odr |-> Zero32]
    /\ irq_masked = FALSE
    /\ \E row \in rows :
           flash = [row |-> row, lo |-> ChipInit(PowerOnMem),
                    hi |-> ChipInit(PowerOnMem)]
    /\ now = 1
    /\ board_rev \in revs
    /\ bus = <<>>
    /\ mon = MonIdle
    /\ snoop = SnoopIdle
    /\ nops = 0

InitWith(rows, revs) == PowerOn(rows, revs) /\ ret = [op |-> "init"]

(* Inputs *)
DataVals == {\h1234, \h1235}
WordVals(mode) ==
    IF mode = EE_MODE_32 THEN {<<\h1234, \h1235>>, <<\h1235, \h1234>>}
    ELSE {<<0, v>> : v \in DataVals}
Buffers(mode, n) == [1 .. n -> WordVals(mode)]

RWAddrs == {<<0, \h100>>, <<\hF, \hFFFF>>, <<\hFFFF, \hFFFF>>}
RWCounts == {<<0, n>> : n \in 0 .. MaxCount} \cup {<<\h10, 1>>}

Touched(addr, n) == {Phys(Add32(addr, <<0, i>>)) : i \in 0 .. n - 1}

(* The requests modelled: those the range check rejects, and those it     *)
(* accepts for at most MaxCount words, all of them tracked                *)
RWInputs ==
    {in \in [addr : RWAddrs, count : RWCounts] :
        \/ RangeRejected(in.addr, in.count)
        \/ /\ in.count[1] = 0
           /\ in.count[2] <= MaxCount
           /\ Touched(in.addr, in.count[2]) \subseteq Cells}

(* addr + count > EE_DEVICE_SIZE, in unbounded arithmetic *)
TrueSumExceeds(addr, count) ==
    LET lo == addr[2] + count[2]
        hi == addr[1] + count[1] + (lo \div W16)
    IN  hi > 16 \/ (hi = 16 /\ lo % W16 > 0)

ActiveHalves(mode) ==
    IF mode = EE_MODE_32 THEN {"lo", "hi"}
    ELSE IF mode = EE_MODE_16_LOW THEN {"lo"} ELSE {"hi"}

(* The parts are idle (reading the array) *)
Ready == flash.lo.st = "read" /\ flash.hi.st = "read"

(* The operation before a read, as the read's record keeps it *)
Prev == IF ret.op = "read" THEN [op |-> "read"] ELSE ret

(* ee_mode is a global that the command handlers outside this file set *)
SetMode ==
    /\ nops < MaxOps
    /\ mon.pc = "idle"
    /\ \E mode \in {EE_MODE_32, EE_MODE_16_LOW, EE_MODE_16_HIGH} :
           /\ mode # ee_mode
           /\ ee_mode' = mode
    /\ UNCHANGED <<ee_cmd_mask, ee_status, ee_last_access, ee_enabled, gpio,
                   irq_masked, flash, now, board_rev, bus, ret, mon, snoop,
                   nops>>

DoEnable ==
    /\ nops < MaxOps
    /\ mon.pc = "idle"
    /\ \E m \in {ee_enable(M)} : Commit(m)
    /\ ret' = [op |-> "enable"]
    /\ UNCHANGED <<mon, snoop, nops>>

DoDisable ==
    /\ nops < MaxOps
    /\ \E m \in {ee_disable(M)} : Commit(m)
    /\ ret' = [op |-> "disable"]
    /\ nops' = nops + 1
    /\ UNCHANGED <<mon, snoop>>

ReadWith(ins) ==
    \E in \in ins :
        \E r \in {ee_read(M, in.addr, in.count)} :
            /\ Commit(r.m)
            /\ ret' = [op |-> "read", width |-> ee_mode, addr |-> in.addr,
                       count |-> in.count, rc |-> r.rc, out |-> r.out,
                       prev |-> Prev]

DoRead ==
    /\ nops < MaxOps
    /\ ReadWith(RWInputs)
    /\ nops' = nops + 1
    /\ UNCHANGED <<mon, snoop>>

WriteWith(ins, scripts) ==
    \E in \in ins, script \in scripts :
      \E data \in Buffers(ee_mode, IF in.count[1] = 0 THEN in.count[2] ELSE 0) :
        \E r \in {ee_write([M EXCEPT !.script = script], in.addr, data,
                             in.count)} :
            /\ Commit(r.m)
            /\ ret' = [op |-> "write", width |-> ee_mode, addr |-> in.addr,
                       count |-> in.count, data |-> data, rc |-> r.rc,
                       mask |-> ee_cmd_mask,
                       ideal |-> Ready /\ r.m.ideal,
                       erased |->
                           \A c \in Touched(in.addr, Len(data)) :
                               \A h \in ActiveHalves(ee_mode) :
                                   flash[h].mem[c] = ERASED]

DoWrite ==
    /\ nops < MaxOps
    /\ WriteWith(RWInputs, Scripts)
    /\ nops' = nops + 1
    /\ UNCHANGED <<mon, snoop>>

EraseWith(modes, addrs, lens, scripts) ==
    \E mode \in modes, addr \in addrs, len \in lens, script \in scripts :
        \E r \in {ee_erase([M EXCEPT !.script = script], mode, addr, len)} :
            /\ Commit(r.m)
            /\ ret' = [op |-> "erase", width |-> ee_mode, mode |-> mode,
                       addr |-> addr, len |-> len, rc |-> r.rc,
                       units |-> r.units, cb |-> r.cb, mask |-> ee_cmd_mask,
                       ideal |-> Ready /\ r.m.ideal]

DoErase ==
    /\ nops < MaxOps
    /\ EraseWith({MX_ERASE_MODE_CHIP, MX_ERASE_MODE_SECTOR, 2}, {0}, {0}, Scripts)
    /\ nops' = nops + 1
    /\ UNCHANGED <<mon, snoop>>

Init == InitWith({2}, {2})

Next == SetMode \/ DoEnable \/ DoDisable \/ DoRead \/ DoWrite \/ DoErase

Spec == Init /\ [][Next]_vars

-----------------------------------------------------------------------------
(* Sector erase over a sweep of ranges, on every part of the table.  The   *)
(* erase is the last operation of a behaviour.                             *)

EraseAddrs ==
    {0, \h1000, \h2800, \h5000, \h8000, \h8001, \h78000, \h7D000,
     \hF8000, \hFD000, \hFFFFF, \h100000}
EraseLens == {0, 1, \h1000, \h8000, \h8001, \h10000}

DoEraseSweep ==
    /\ nops < MaxOps
    /\ EraseWith({MX_ERASE_MODE_SECTOR}, EraseAddrs, EraseLens, {<<>>})
    /\ nops' = MaxOps
    /\ UNCHANGED <<mon, snoop>>

InitErase == InitWith(ChipRows, {2})

NextErase == SetMode \/ DoEnable \/ DoEraseSweep

SpecErase == InitErase /\ [][NextErase]_vars

-----------------------------------------------------------------------------
(* The completion monitor, one loop pass per step, on a status source that *)
(* shows any of Samples at each read and lets any of Ticks pass per read.  *)
(* mon.h holds the last three values of status, newest first, mon.n the    *)
(* number of reads done.                                                   *)

Samples == {<<0, 0>>, <<\h40, \h40>>, <<\h20, \h20>>, <<\h60, \h60>>}
Ticks == {1, SlowTick}
MonCalls ==
    {[mode |-> EE_MODE_PROGRAM, timeout |-> PROGRAM_TIMEOUT_USEC],
     [mode |-> EE_MODE_ERASE, timeout |-> CHIP_ERASE_TIMEOUT_USEC]}

(* The parts as a status source: the next read of address 0 gives raw *)
SourceShows(f, raw) ==
    [f EXCEPT !.lo = [ChipInit(@.mem) EXCEPT !.mem[0] = raw[2]],
              !.hi = [ChipInit(@.mem) EXCEPT !.mem[0] = raw[1]]]

MonEnter ==
    /\ mon.pc = "idle"
    /\ nops < MaxOps
    /\ \E call \in MonCalls :
           mon' = [pc |-> "poll", mode |-> call.mode, timeout |-> call.timeout,
                   st |-> MonStart(M), n |-> 0, h |-> <<Zero32, Zero32, Zero32>>,
                   rc |-> 0, exit |-> "none"]
    /\ nops' = nops + 1
    /\ ret' = [op |-> "monitor"]
    /\ UNCHANGED <<ee_mode, ee_cmd_mask, ee_status, ee_last_access, ee_enabled,
                   gpio, irq_masked, flash, now, board_rev, bus, snoop>>

MonPoll ==
    /\ mon.pc = "poll"
    /\ MonGuard(mon.st, mon.timeout)
    /\ mon.n < MaxPolls
    /\ \E raw \in Samples, dt \in Ticks :
         \E p \in {MonStep([M EXCEPT !.flash = SourceShows(@, raw), !.dt = dt],
                           mon.st)} :
           /\ Commit(p.m)
           /\ mon' = [mon EXCEPT !.st = p.st, !.n = @ + 1,
                                 !.h = <<p.st.status, mon.h[1], mon.h[2]>>]
    /\ UNCHANGED <<ret, snoop, nops>>

MonLeave ==
    /\ mon.pc = "poll"
    /\ ~MonGuard(mon.st, mon.timeout)
    /\ \E r \in {MonFinish(M, mon.st, mon.mode)} :
           /\ Commit(r.m)
           /\ mon' = [mon EXCEPT !.pc = "left", !.rc = r.rc,
                                 !.exit = IF mon.st.pc = "loop" THEN "timeout"
                                          ELSE mon.st.pc]
    /\ UNCHANGED <<ret, snoop, nops>>

InitMon == InitWith({2}, {2})

NextMon == SetMode \/ DoEnable \/ MonEnter \/ MonPoll \/ MonLeave

SpecMon == InitMon /\ [][NextMon]_vars

(* The same monitor on a tick counter that advances, per loop pass, by at  *)
(* least the TickDiv-th part of the timeout: the loop is sequential code,  *)
(* so a pass that can run does run, and so does the return.                *)
LiveTicks(timeout) == {timeout \div TickDiv, SlowTick}

MonPollLive ==
    /\ mon.pc = "poll"
    /\ MonGuard(mon.st, mon.timeout)
    /\ mon.n < MaxPolls
    /\ \E raw \in Samples, dt \in LiveTicks(mon.timeout) :
         \E m \in {[M EXCEPT !.flash = SourceShows(@, raw), !.dt = dt]} :
           \E r \in {ee_read_word(m, Zero32)} :
             \E st \in {MonBody(mon.st, timer_tick_get(m), r.v, m.mask)} :
               /\ Commit(r.m)
               /\ mon' = [mon EXCEPT !.st = st, !.n = @ + 1,
                                     !.h = <<st.status, mon.h[1], mon.h[2]>>]
    /\ UNCHANGED <<ret, snoop, nops>>

NextMonLive == SetMode \/ DoEnable \/ MonEnter \/ MonPollLive \/ MonLeave

SpecMonLive ==
    InitMon /\ [][NextMonLive]_vars /\ WF_vars(MonPollLive) /\ WF_vars(MonLeave)

-----------------------------------------------------------------------------
(* ee_write against parts whose program operations end well, end leaving   *)
(* the bits unprogrammed, or fail, in every order                          *)

MaxScript == 3       \* program operations a script describes
MaxWrites == 1       \* scripted writes per behaviour

Outcomes == {B_ok2, B_weak, B_fail}

WriteScripts == UNION {[1 .. n -> Outcomes] : n \in 0 .. MaxScript}

WriteInputs ==
    {in \in RWInputs : in.addr = <<0, \h100>> /\ in.count \in {<<0, 1>>, <<0, 2>>}}

DoWriteScripted ==
    /\ nops < MaxWrites
    /\ WriteWith(WriteInputs, WriteScripts)
    /\ nops' = nops + 1
    /\ UNCHANGED <<mon, snoop>>

NextWrite == SetMode \/ DoEnable \/ DoWriteScripted

SpecWrite == Init /\ [][NextWrite]_vars

-----------------------------------------------------------------------------
(* get_chip_block_info on the ids of the table, on ids next to them, on    *)
(* ids with the halves swapped or in the other half, and on others         *)

IdHighs == {\h0000, \h0001, \h00c2, \h01c2, \hFFFF}
IdLows ==
    {\h0000, \h0001, \h2257, \h2258, \h2259, \h22D2, \h22D6, \h22D8, \h22D9,
     \h5822, \hD622, \hFFFF}

ChipIds == {<<hi, lo>> : hi \in IdHighs, lo \in IdLows}

InitChip ==
    /\ PowerOn({2}, {2})
    /\ \E chipid \in ChipIds : ret = [op |-> "chipid", chipid |-> chipid]

LookUp ==
    /\ ret.op = "chipid"
    /\ ret' = [op |-> "chip", chipid |-> ret.chipid,
               cb |-> get_chip_block_info(ret.chipid)]
    /\ UNCHANGED <<ee_mode, ee_cmd_mask, ee_status, ee_last_access, ee_enabled,
                   gpio, irq_masked, flash, now, board_rev, bus, mon, snoop, nops>>

NextChip == LookUp

SpecChip == InitChip /\ [][NextChip]_vars

-----------------------------------------------------------------------------
(* The operations as the command handlers and the main loop call them:     *)
(* raw commands, identification, status, and ee_poll between idle periods  *)

IdleStep == 600000        \* microseconds the main loop idles in one step

BusInputs ==
    {in \in RWInputs : in.addr = <<0, \h100>> /\ in.count \in {<<0, 1>>, <<\h10, 1>>}}

BusCmds ==
    {[addr |-> <<0, \h555>>, cmd |-> <<0, \h0090>>],
     [addr |-> Zero32, cmd |-> <<0, \h00f0>>]}

(* The operations after which the main loop idles, and for how long *)
Idle ==
    IF ret.op = "idle" THEN ret ELSE [op |-> "idle", after |-> ret.op, usec |-> 0]

Pass ==
    /\ now < MaxIdle * IdleStep
    /\ now' = now + IdleStep
    /\ ret' = [Idle EXCEPT !.usec = @ + IdleStep]
    /\ UNCHANGED <<ee_mode, ee_cmd_mask, ee_status, ee_last_access, ee_enabled,
                   gpio, irq_masked, flash, board_rev, bus, mon, snoop, nops>>

DoCmd ==
    /\ nops < MaxOps
    /\ \E c \in BusCmds :
           \E m \in {ee_cmd(M, c.addr, c.cmd)} :
               /\ Commit(m)
               /\ ret' = [op |-> "cmd", addr |-> c.addr, cmd |-> c.cmd]
    /\ nops' = nops + 1
    /\ UNCHANGED <<mon, snoop>>

DoId ==
    /\ nops < MaxOps
    /\ \E r \in {ee_id(M)} :
           /\ Commit(r.m)
           /\ ret' = [op |-> "id", part1 |-> r.part1, part2 |-> r.part2]
    /\ nops' = nops + 1
    /\ UNCHANGED <<mon, snoop>>

DoStatusRead ==
    /\ nops < MaxOps
    /\ \E r \in {ee_status_read(M)} :
           /\ Commit(r.m)
           /\ ret' = [op |-> "status", v |-> r.v]
    /\ nops' = nops + 1
    /\ UNCHANGED <<mon, snoop>>

(* ee_poll, with what it found: the bus enabled or not, the pins, the      *)
(* last-access mark, and how long ago which operation returned             *)
DoPoll ==
    /\ \E m \in {ee_poll(M)} : Commit(m)
    /\ ret' = [op |-> "poll", was |-> ee_enabled, pins |-> gpio,
               last |-> ee_last_access, at |-> now, after |-> Idle.after,
               usec |-> Idle.usec]
    /\ UNCHANGED <<mon, snoop, nops>>

BusRead ==
    /\ nops < MaxOps
    /\ ReadWith(BusInputs)
    /\ nops' = nops + 1
    /\ UNCHANGED <<mon, snoop>>

BusWrite ==
    /\ nops < MaxOps
    /\ WriteWith(BusInputs, {<<>>})
    /\ nops' = nops + 1
    /\ UNCHANGED <<mon, snoop>>

BusErase ==
    /\ nops < MaxOps
    /\ EraseWith({MX_ERASE_MODE_CHIP, 2}, {0}, {0}, {<<>>, <<B_fail>>})
    /\ nops' = nops + 1
    /\ UNCHANGED <<mon, snoop>>

(* ee_cmd alone, in every mode, for the commands of the parts *)
Opcodes == {\hf0, \h98, \hb0, \h30, \h90, \h70, \ha0}
Cmds ==
    [addr : {Zero32, <<0, \h555>>},
     cmd : {<<0, op>> : op \in Opcodes} \cup {<<op, op>> : op \in Opcodes}]

DoCmdAny ==
    /\ nops < MaxOps
    /\ \E c \in Cmds :
           \E m \in {ee_cmd(M, c.addr, c.cmd)} :
               /\ Commit(m)
               /\ ret' = [op |-> "cmd", addr |-> c.addr, cmd |-> c.cmd,
                          width |-> ee_mode, mask |-> ee_cmd_mask]
    /\ nops' = nops + 1
    /\ UNCHANGED <<mon, snoop>>

NextCmd == SetMode \/ DoEnable \/ DoCmdAny

SpecCmd == Init /\ [][NextCmd]_vars

(* The sockets tested: sound, or with one line held high or low *)
Wirings ==
    {[a_high |-> {}, a_low |-> {}, d_high |-> {}, d_low |-> {}],
     [a_high |-> {3}, a_low |-> {}, d_high |-> {}, d_low |-> {}],
     [a_high |-> {}, a_low |-> {5}, d_high |-> {}, d_low |-> {}],
     [a_high |-> {}, a_low |-> {}, d_high |-> {2}, d_low |-> {}],
     [a_high |-> {}, a_low |-> {}, d_high |-> {}, d_low |-> {7}]}

DoVerify ==
    /\ nops < MaxOps
    /\ \E env \in Wirings :
           \E r \in {ee_verify(M, env)} :
               /\ Commit(r.m)
               /\ ret' = [op |-> "verify", rc |-> r.rc, env |-> env,
                          was |-> ee_enabled, pulls |-> r.m.pulls]
    /\ nops' = nops + 1
    /\ UNCHANGED <<mon, snoop>>

InitBus == InitWith({2}, {1, 2})

NextBus ==
    \/ DoEnable \/ DoDisable \/ DoCmd \/ DoId \/ DoStatusRead \/ DoPoll \/ Pass
    \/ BusRead \/ BusWrite \/ BusErase \/ DoVerify

SpecBus == InitBus /\ [][NextBus]_vars

-----------------------------------------------------------------------------
(* ee_snoop: the capture of the addresses the host puts on the socket.     *)
(* One step is one pass of the while (1) loop; oe and addr are what        *)
(* oe_input() and address_input() return in that pass, brk what            *)
(* input_break_pending() returns.  captured lists the addresses pushed and *)
(* out the addresses printed, both from the call on.                       *)

CAPTURES == 32
SNOOP_ITERS == 30
SNOOP_NO_DATA == 30
(* laddr = 0xffffffff, as a uint32_t *)
LADDR_NONE == <<\hffff, \hffff>>

MaxCaptures == 33

SnoopStart ==
    [pc |-> "loop", cons |-> 0, prod |-> 0, iters |-> 0, no_data |-> 0,
     captures |-> [i \in 0 .. CAPTURES - 1 |-> Zero32], laddr |-> LADDR_NONE,
     brk |-> FALSE, captured |-> <<>>, out |-> <<>>]

(* The ring with no check of the room left *)
FifoNeverFull(nprod, cons) == FALSE

(* nprod == cons: FIFO full *)
FifoFull(nprod, cons) == nprod = cons

(* if (++i >= ARRAY_SIZE(captures)) i = 0 *)
NextSlot(i) == IF i + 1 >= CAPTURES THEN 0 ELSE i + 1

(* no_data = 0; if (iters++ >= 30) ...; continue *)
SnoopPolled(s) ==
    IF s.iters >= SNOOP_ITERS
    THEN IF s.brk THEN [s EXCEPT !.no_data = 0, !.iters = @ + 1, !.pc = "done"]
         ELSE [s EXCEPT !.no_data = 0, !.iters = 0]
    ELSE [s EXCEPT !.no_data = 0, !.iters = @ + 1]

SnoopPush(s, addr) ==
    [s EXCEPT !.captures[s.prod] = addr,
              !.prod = NextSlot(s.prod),
              !.laddr = addr,
              !.captured = Append(@, addr)]

(* oe_input() == 0 *)
SnoopLow(s, addr) ==
    IF addr # s.laddr
    THEN IF FifoFull(NextSlot(s.prod), s.cons) THEN s
         ELSE SnoopPolled(SnoopPush(s, addr))
    ELSE SnoopPolled(s)

(* The entries from cons up to prod, in the order the print loop takes them *)
Pending(s) ==
    [k \in 1 .. (s.prod + CAPTURES - s.cons) % CAPTURES |->
        s.captures[(s.cons + k - 1) % CAPTURES]]

(* while (cons != prod) { printf(captures[cons]); if (++cons >= 32) cons = 0; } *)
SnoopPrint(s) == [s EXCEPT !.out = @ \o Pending(s), !.cons = s.prod]

(* oe_input() != 0.  no_data counts on past 30; every value above 30 acts  *)
(* alike, and the model keeps the first of them                            *)
SnoopHigh(s) ==
    IF s.no_data < SNOOP_NO_DATA
    THEN [s EXCEPT !.no_data = @ + 1]
    ELSE [SnoopPrint(s) EXCEPT !.no_data = SNOOP_NO_DATA + 1,
                               !.iters = 0,
                               !.pc = IF s.brk THEN "done" ELSE "loop"]

SnoopPass(s, oe, addr) == IF oe = 0 THEN SnoopLow(s, addr) ELSE SnoopHigh(s)

(* The addresses the host shows *)
SnoopAddrs == {<<0, \h100>>, <<0, \h101>>}

SnoopEnter ==
    /\ snoop.pc = "idle"
    /\ snoop' = SnoopStart
    /\ ret' = [op |-> "snoop"]
    /\ UNCHANGED <<ee_mode, ee_cmd_mask, ee_status, ee_last_access, ee_enabled,
                   gpio, irq_masked, flash, now, board_rev, bus, mon, nops>>

SnoopRest ==
    UNCHANGED <<ee_mode, ee_cmd_mask, ee_status, ee_last_access, ee_enabled,
                gpio, irq_masked, flash, now, board_rev, bus, ret, mon, nops>>

(* The break signal arrives; it stays pending *)
SnoopBreak ==
    /\ snoop.pc = "loop"
    /\ ~snoop.brk
    /\ snoop' = [snoop EXCEPT !.brk = TRUE]
    /\ SnoopRest

SnoopIterWith(oes, addrs) ==
    /\ snoop.pc = "loop"
    /\ \E oe \in oes, addr \in addrs :
           /\ Len(SnoopPass(snoop, oe, addr).captured) <= MaxCaptures
           /\ snoop' = SnoopPass(snoop, oe, addr)
    /\ SnoopRest

SnoopIter == SnoopIterWith({0, 1}, SnoopAddrs)

NextSnoop == SnoopEnter \/ SnoopBreak \/ SnoopIter

SpecSnoop == Init /\ [][NextSnoop]_vars

(* ee_snoop with the host holding OE# asserted: every pass samples OE# low *)
(* and the address the host shows at the time, which it may change at any  *)
(* moment.  The loop is sequential code: a pass that can run does run.     *)
(* odd tells the passes apart: it is the parity of their number.           *)
SnoopEnterHeld ==
    /\ snoop.pc = "idle"
    /\ \E addr \in SnoopAddrs :
           snoop' = [addr |-> addr, odd |-> FALSE] @@ SnoopStart
    /\ ret' = [op |-> "snoop"]
    /\ UNCHANGED <<ee_mode, ee_cmd_mask, ee_status, ee_last_access, ee_enabled,
                   gpio, irq_masked, flash, now, board_rev, bus, mon, nops>>

SnoopAddrChange ==
    /\ snoop.pc = "loop"
    /\ \E addr \in SnoopAddrs \ {snoop.addr} :
           snoop' = [snoop EXCEPT !.addr = addr]
    /\ SnoopRest

SnoopIterHeld ==
    /\ snoop.pc = "loop"
    /\ snoop' = [SnoopPass(snoop, 0, snoop.addr) EXCEPT !.odd = ~@]
    /\ SnoopRest

NextSnoopLive == SnoopEnterHeld \/ SnoopBreak \/ SnoopAddrChange \/ SnoopIterHeld

SpecSnoopLive == Init /\ [][NextSnoopLive]_vars /\ WF_vars(SnoopIterHeld)

-----------------------------------------------------------------------------
(* The bus cycles pin by pin.  ee_read_word and ee_write_word are the only *)
(* code that moves the pins between ee_enable and ee_disable; here one     *)
(* step is one call of a pin primitive.  ret keeps the cycle under way:    *)
(* its kind, its arguments, the pins it started from, and pc, the number   *)
(* of primitives called so far.                                            *)

(* The n-th pin primitive of ee_read_word(addr); data_input() between the *)
(* fourth and the fifth moves no pin                                       *)
ReadStep(g, addr, n) ==
    CASE n = 1 -> address_output(g, addr)
      [] n = 2 -> address_output_enable(g)
      [] n = 3 -> oe_output(g, 0)
      [] n = 4 -> oe_output_enable(g)
      [] n = 5 -> oe_output(g, 1)
      [] n = 6 -> oe_output_disable(g)

(* ee_write_word with OE# driven low at its start *)
WriteStepOeLow(g, addr, x, n) ==
    CASE n = 1 -> address_output(g, addr)
      [] n = 2 -> oe_output(g, 0)
      [] n = 3 -> oe_output_enable(g)
      [] n = 4 -> we_output(g, 0)
      [] n = 5 -> data_output(g, x)
      [] n = 6 -> data_output_enable(g)
      [] n = 7 -> we_output(g, 1)
      [] n = 8 -> data_output_disable(g)
      [] n = 9 -> oe_output_disable(g)

(* The n-th pin primitive of ee_write_word(addr, data), x = data & ee_cmd_mask *)
WriteStep(g, addr, x, n) ==
    CASE n = 1 -> address_output(g, addr)
      [] n = 2 -> oe_output(g, 1)
      [] n = 3 -> oe_output_enable(g)
      [] n = 4 -> we_output(g, 0)
      [] n = 5 -> data_output(g, x)
      [] n = 6 -> data_output_enable(g)
      [] n = 7 -> we_output(g, 1)
      [] n = 8 -> data_output_disable(g)
      [] n = 9 -> oe_output_disable(g)

(* The pin primitives called by one ee_read_word, by one ee_write_word *)
CycleSteps(k) == IF k = "R" THEN 6 ELSE 9

CycleAddrs == {<<0, \h555>>, <<0, \h2aa>>}
CycleData == {<<\h00aa, \h00aa>>, <<\h0055, \h0055>>}

CycleRest ==
    UNCHANGED <<ee_mode, ee_cmd_mask, ee_status, ee_last_access, ee_enabled,
                irq_masked, flash, now, board_rev, bus, mon, snoop, nops>>

CycleOver == ret.op = "enable" \/ (ret.op = "cycle" /\ ret.pc = CycleSteps(ret.k))

PinsEnable ==
    /\ ret.op = "init"
    /\ \E m \in {ee_enable(M)} : Commit(m)
    /\ ret' = [op |-> "enable"]
    /\ UNCHANGED <<mon, snoop, nops>>

CycleStart ==
    /\ CycleOver
    /\ \E k \in {"R", "W"}, addr \in CycleAddrs, data \in CycleData :
           ret' = [op |-> "cycle", k |-> k, addr |-> addr, data |-> data,
                   from |-> gpio, pc |-> 0]
    /\ UNCHANGED gpio
    /\ CycleRest

PinStep ==
    /\ ret.op = "cycle"
    /\ ret.pc < CycleSteps(ret.k)
    /\ gpio' = IF ret.k = "R" THEN ReadStep(gpio, ret.addr, ret.pc + 1)
               ELSE WriteStep(gpio, ret.addr, And32(ret.data, ee_cmd_mask),
                              ret.pc + 1)
    /\ ret' = [ret EXCEPT !.pc = @ + 1]
    /\ CycleRest

NextPins == SetMode \/ PinsEnable \/ CycleStart \/ PinStep

SpecPins == InitBus /\ [][NextPins]_vars

-----------------------------------------------------------------------------
(* Properties of ee_read and ee_write, under Spec *)

AllOnes(width) == IF width = EE_MODE_32 THEN <<ERASED, ERASED>> ELSE <<0, ERASED>>

(* A read that follows a write (an erase) of the same range and bus width *)
ReadAfterWrite ==
    /\ ret.op = "read"
    /\ ret.prev.op = "write"
    /\ ret.prev.addr = ret.addr
    /\ ret.prev.count = ret.count
    /\ ret.prev.width = ret.width
    /\ ~TrueSumExceeds(ret.addr, ret.count)

ReadAfterChipErase ==
    /\ ret.op = "read"
    /\ ret.prev.op = "erase"
    /\ ret.prev.mode = MX_ERASE_MODE_CHIP
    /\ ret.prev.width = ret.width
    /\ ~TrueSumExceeds(ret.addr, ret.count)

(* C1: round trip. When ee_write(addr, data, count) with addr + count <=   *)
(* 2^20 finds its target cells erased, on parts that behave ideally, it    *)
(* returns 0 and a following ee_read(addr, out, count) in the same bus     *)
(* width returns 0 and stores exactly the words written.                   *)
C1_RoundTrip ==
    (ReadAfterWrite /\ ret.prev.erased /\ ret.prev.ideal)
        => /\ ret.prev.rc = 0
           /\ ret.rc = 0
           /\ ret.out = ret.prev.data

(* C2: after ee_erase in chip mode returned 0 on parts that behave         *)
(* ideally, ee_read of any word in the device stores all ones in the       *)
(* active bus half, whatever was programmed before.                        *)
C2_ChipEraseReadsOnes ==
    (ReadAfterChipErase /\ ret.prev.rc = 0 /\ ret.prev.ideal)
        => /\ ret.rc = 0
           /\ \A i \in 1 .. Len(ret.out) : ret.out[i] = AllOnes(ret.width)

(* C3: ee_read and ee_write return nonzero and perform no bus cycle for    *)
(* every addr and count whose true sum exceeds 2^20, also when the 32-bit  *)
(* sum wraps around.                                                       *)
C3_RangeRejected ==
    (ret.op \in {"read", "write"} /\ TrueSumExceeds(ret.addr, ret.count))
        => ret.rc # 0 /\ bus = <<>>

-----------------------------------------------------------------------------
(* Properties of sector erase, under SpecErase *)

SectorErase == ret.op = "erase" /\ ret.mode = MX_ERASE_MODE_SECTOR

(* The bus writes of the last operation that pass the sector erase command *)
SectorCmdWrites == SelectSeq(bus, LAMBDA e : e.k = "W" /\ e.d = SECTOR_ERASE_CMD)

(* The commands reach the parts as commands, and the geometry is theirs *)
Identified == ret.mask = ModeMask(ret.width) /\ ret.cb = chip_blocks[flash.row]

(* One address in every erase sector that intersects addr .. addr + len - 1 *)
Probes(addr, len) ==
    {addr} \cup {a \in {(addr \div 4096 + k) * 4096 : k \in 1 .. (len \div 4096 + 1)} :
                    a <= addr + len - 1}

RECURSIVE UnitsTotal(_)
UnitsTotal(units) ==
    IF units = <<>> THEN 0 ELSE Head(units).bsize + UnitsTotal(Tail(units))

Min(a, b) == IF a < b THEN a ELSE b

(* C4: every sector erase command written by ee_erase in sector mode is    *)
(* written to an address below 2^20, for every addr and len.               *)
C4_SectorCmdInDevice ==
    (SectorErase /\ Identified)
        => \A i \in 1 .. Len(SectorCmdWrites) :
               SectorCmdWrites[i].a[1] * W16 + SectorCmdWrites[i].a[2] < EE_DEVICE_SIZE

(* C5: for ee_erase in sector mode with len > 0 and addr + len <= 2^20,    *)
(* every erase sector that intersects addr .. addr + len - 1 receives a    *)
(* sector erase command.                                                   *)
C5_NeverTooFew ==
    (SectorErase /\ Identified /\ ret.len > 0 /\ ret.addr + ret.len <= EE_DEVICE_SIZE)
        => \A p \in Probes(ret.addr, ret.len) :
               \E i \in 1 .. Len(ret.units) :
                   DevSector(flash.row, ret.units[i].cmd).start
                       = DevSector(flash.row, p).start

(* C6: ee_erase in sector mode with len = 0 writes exactly one sector      *)
(* erase command, for every addr below 2^20 and every row of chip_blocks.  *)
C6_OneUnitForZeroLen ==
    (SectorErase /\ ret.len = 0 /\ ret.addr < EE_DEVICE_SIZE)
        => Len(SectorCmdWrites) = 1 /\ Len(ret.units) = 1

C6_Witness ==
    /\ SectorErase
    /\ Identified
    /\ ret.len = 0
    /\ ret.addr = \h5000
    /\ ret.cb.cb_bbnum = 0
    /\ ret.rc = 0
    /\ Len(SectorCmdWrites) = 1
    /\ ret.units = <<[cmd |-> \h5000, bsize |-> 12288, addr |-> \h5000]>>

(* C7: every sector erase command is written to the start address of the   *)
(* erase sector that holds addr at that time, also for addr inside a boot  *)
(* block sector.                                                           *)
C7_CmdAtSectorStart ==
    (SectorErase /\ Identified)
        => \A i \in 1 .. Len(ret.units) :
               ret.units[i].addr < EE_DEVICE_SIZE
                   => ret.units[i].cmd = SectorOf(ret.cb, ret.units[i].addr).start

(* C8: for a sector erase that starts at the first word of the boot block, *)
(* the erase units are the boot sectors in order (map 0x1d: 8K, 4K, 4K,    *)
(* 16K words; map 0x71: 16K, 4K, 4K, 8K words), each written at its        *)
(* sector's start; a range of the whole block or more gets all four, which *)
(* sum to the 32K-word block; the units' total is at least len.            *)
BootStart(cb) == cb.cb_bbnum * cb.cb_bsize * 1024

C8_BootUnits ==
    (SectorErase /\ ret.len > 0 /\ ret.addr = BootStart(ret.cb))
        => /\ Len(ret.units) >= 1
           /\ \A i \in 1 .. Min(Len(ret.units), 4) :
                  /\ ret.units[i].bsize = BootLayout(ret.cb)[i][2]
                  /\ ret.units[i].addr = ret.addr + BootLayout(ret.cb)[i][1]
                  /\ ret.units[i].cmd = ret.units[i].addr
           /\ ret.len >= 32768
                  => /\ Len(ret.units) >= 4
                     /\ UnitsTotal(SubSeq(ret.units, 1, 4)) = 32768
           /\ UnitsTotal(ret.units) >= ret.len

C8_Witness ==
    /\ SectorErase
    /\ Identified
    /\ ret.cb.cb_map = \h71
    /\ ret.addr = BootStart(ret.cb)
    /\ ret.len = 32768
    /\ ret.rc = 0
    /\ Len(ret.units) = 4
    /\ ret.units[1].bsize = 16384
    /\ ret.units[4].bsize = 8192

-----------------------------------------------------------------------------
(* Properties of the completion monitor, under SpecMon *)

(* The last two (three) values of status are equal; before the first read *)
(* the value is lstatus, initially 0                                      *)
PairAt == mon.n >= 2 /\ mon.h[1] = mon.h[2]
StableAt == PairAt /\ mon.h[2] = mon.h[3]

TimeoutKind(mode) ==
    IF mode = EE_MODE_ERASE THEN EE_STATUS_ERASE_TIMEOUT ELSE EE_STATUS_PROG_TIMEOUT

FailureKind(mode) ==
    IF mode = EE_MODE_ERASE THEN EE_STATUS_ERASE_FAILURE ELSE EE_STATUS_PROG_FAILURE

(* C9, as stated: ee_wait_for_done_status returns 0 exactly at the second  *)
(* of two consecutive equal reads, not earlier and not later.              *)
C9_DoneAtSecondEqual ==
    /\ mon.pc = "poll" => (mon.st.pc = "done" <=> PairAt)
    /\ mon.pc = "left" => (mon.rc = 0 <=> PairAt)

(* C9, amended: ee_wait_for_done_status returns 0 exactly at the read that *)
(* is the third of three consecutive equal masked values, the initial      *)
(* lstatus (0) counting as the value before the first read; not earlier    *)
(* and not later.                                                          *)
C9_DoneAtThirdEqual ==
    /\ mon.pc = "poll" => (mon.st.pc = "done" <=> StableAt)
    /\ mon.pc = "left" => (mon.rc = 0 <=> StableAt)

C9_Witness ==
    /\ mon.pc = "left"
    /\ mon.rc = 0
    /\ mon.n = 5
    /\ mon.h = <<<<0, \h40>>, <<0, \h40>>, <<0, \h40>>>>
    /\ ee_status = EE_STATUS_NORMAL

-----------------------------------------------------------------------------
(* Termination of the completion monitor, under SpecMonLive *)

(* A step that is one pass of the monitor's loop *)
MonIter == mon.pc = "poll" /\ mon'.pc = "poll" /\ mon'.n = mon.n + 1

(* The time since the monitor's start *)
Elapsed == now - mon.st.start

MonReturns == (mon.pc = "poll") ~> (mon.pc = "left")

(* C11, as stated: on a tick counter that advances the monitor eventually  *)
(* returns, and no loop pass starts once the elapsed time has reached      *)
(* timeout_usec.                                                           *)
C11_NoPassAfterTimeout ==
    MonReturns /\ [][MonIter => Elapsed < mon.timeout]_vars

(* C11, amended: on a tick counter that advances the monitor eventually    *)
(* returns; a loop pass starts only while the elapsed time sampled by the  *)
(* pass before it (0 before the first) is below timeout_usec, and a pass   *)
(* that starts once the elapsed time has reached timeout_usec is the last. *)
C11_OnePassAfterTimeout ==
    MonReturns
        /\ [][MonIter => /\ mon.st.usecs < mon.timeout
                          /\ Elapsed >= mon.timeout
                                 => ~MonGuard(mon'.st, mon.timeout)]_vars

C11_Witness ==
    /\ mon.pc = "left"
    /\ mon.exit = "timeout"
    /\ mon.n = 5
    /\ mon.st.usecs >= mon.timeout
    /\ mon.rc = 1

-----------------------------------------------------------------------------
(* C12: whenever ee_write or ee_erase returns, whatever it returns, both   *)
(* parts are in read-array mode.  It fails: a rejected address (ee_write)  *)
(* or mode (ee_erase) returns before any command is issued, and a verify   *)
(* mismatch returns without ee_read_mode, so a part that an earlier raw    *)
(* command left in autoselect mode is still there when the call returns.   *)
C12_ReadArrayOnReturn == ret.op \in {"write", "erase"} => Ready

-----------------------------------------------------------------------------
(* The verify reads of a one-word ee_write: the read cycles at its address *)
(* (the status reads are at address 0)                                     *)
OneWordWrite ==
    /\ ret.op = "write"
    /\ ret.count = <<0, 1>>
    /\ ret.addr # Zero32

VerifyReads == {i \in DOMAIN bus : bus[i].k = "R" /\ bus[i].a = ret.addr}

Half(x, h) == IF h = "lo" THEN x[2] ELSE x[1]

(* Some bit of the bus-width in use is 1 in value and 0 in rvalue *)
NeedsRise(value, rvalue, mode) ==
    \E h \in ActiveHalves(mode) : AndN(Half(value, h), Not16(Half(rvalue, h))) # 0

(* C13: when the read-back after programming a word has a 0 where the      *)
(* value to program has a 1, ee_write returns 4 and that read-back is its  *)
(* last bus cycle (no retry).  It fails where ee_cmd_mask is not the mask  *)
(* of ee_mode (C27): the comparison is made under ee_cmd_mask.             *)
C13_MismatchFails ==
    OneWordWrite =>
        \A i \in VerifyReads :
            NeedsRise(WordOf(ret.width, ret.data[1]), bus[i].x, ret.width)
                => ret.rc = 4 /\ i = Len(bus)

-----------------------------------------------------------------------------
(* The program sequences of an ee_write in its bus trace, word by word:    *)
(* the 0xA0 command cycle is followed by the write of the word at its      *)
(* address; only ee_status_clear writes 0xF0 at address 0, and only the    *)
(* monitor's non-success exits call it                                     *)
WordAddr(j) == Add32(ret.addr, <<0, j - 1>>)

ProgramCycles(j) ==
    {i \in 1 .. Len(bus) - 1 :
        /\ bus[i].k = "W"
        /\ bus[i].a = <<0, \h555>>
        /\ bus[i].d = <<\h00a0, \h00a0>>
        /\ bus[i + 1].a = WordAddr(j)}

WordsBegun == {j \in 1 .. Len(ret.data) : ProgramCycles(j) # {}}

First(S) == CHOOSE i \in S : \A k \in S : i <= k

LastWord == CHOOSE j \in WordsBegun : \A k \in WordsBegun : k <= j

SegmentEnd(j) ==
    IF j + 1 \in WordsBegun THEN First(ProgramCycles(j + 1)) ELSE Len(bus) + 1

StatusClearAt(i) ==
    /\ bus[i].k = "W"
    /\ bus[i].a = Zero32
    /\ bus[i].d = <<\h00f0, \h00f0>>

MonitorFailures(j) ==
    {i \in DOMAIN bus :
        /\ i > First(ProgramCycles(j))
        /\ i < SegmentEnd(j)
        /\ StatusClearAt(i)}

AttemptsBounded == \A j \in WordsBegun : Cardinality(ProgramCycles(j)) <= 3

WroteWords == ret.op = "write" /\ WordsBegun # {}

(* C14, as stated: at most 3 program sequences per word, and return 3      *)
(* only after the monitor failed on all 3 of them.  try_count is shared    *)
(* by the two retry tests, so this does not hold.                          *)
C14_FailureAfterThreeFailures ==
    WroteWords =>
        /\ AttemptsBounded
        /\ ret.rc = 3 => Cardinality(MonitorFailures(LastWord)) = 3

(* C14, amended: at most 3 program sequences per word; ee_write returns    *)
(* (with 0, 3 or 4); it returns 3 only when the monitor has just failed on *)
(* the third program sequence of the word, whatever made the first two     *)
(* fall short (failure of the monitor or recoverable verify mismatch).     *)
C14_FailureWhenRetriesSpent ==
    WroteWords =>
        /\ AttemptsBounded
        /\ ret.rc \in {0, 3, 4}
        /\ ret.rc = 3 =>
               /\ Cardinality(ProgramCycles(LastWord)) = 3
               /\ Len(bus) - 1 \in MonitorFailures(LastWord)
               /\ \A i \in ProgramCycles(LastWord) :
                      Cardinality({k \in MonitorFailures(LastWord) : k > i}) >= 1

(* Two recoverable mismatches, then one failure of the monitor: return 3 *)
C14_Witness ==
    /\ WroteWords
    /\ ret.mask = ModeMask(ret.width)
    /\ ret.rc = 3
    /\ Cardinality(ProgramCycles(LastWord)) = 3
    /\ Cardinality(MonitorFailures(LastWord)) = 1

-----------------------------------------------------------------------------
PublicOps == {"cmd", "read", "write", "id", "status", "erase"}

(* C15: every public operation returns with the shared interrupt source    *)
(* unmasked.  It fails for ee_erase, which masks the interrupts on every   *)
(* pass of its loop and never unmasks them.                                *)
C15_ReturnsUnmasked == ret.op \in PublicOps => ~irq_masked

-----------------------------------------------------------------------------
AccessOps == {"cmd", "read", "write", "erase"}

(* C16: a poll less than 1 second after the most recent bus access (the    *)
(* return of ee_cmd, ee_read, ee_write or ee_erase) leaves an enabled bus  *)
(* enabled.  It fails: only ee_cmd records the time of an access, so a     *)
(* poll shortly after an ee_read disables the bus when the last ee_cmd is  *)
(* more than 1 second old.                                                 *)
C16_RecentAccessKeepsBus ==
    (/\ ret.op = "poll"
     /\ ret.was
     /\ ret.after \in AccessOps
     /\ ret.usec < IDLE_LIMIT_USEC) => ee_enabled

-----------------------------------------------------------------------------
(* C17: with the bus disabled (ee_enabled false), ee_poll changes nothing: *)
(* no pin, no mode, no driver state.  It fails: ee_poll tests only         *)
(* ee_last_access, so after ee_disable it runs ee_disable once more, which *)
(* clears ee_last_access, and turns off drivers that an ee_read on the     *)
(* disabled bus had turned on.                                             *)
C17_PollOnDisabledBusIdle ==
    (ret.op = "poll" /\ ~ret.was) =>
        /\ gpio = ret.pins
        /\ ee_last_access = ret.last
        /\ now = ret.at
        /\ ~ee_enabled

-----------------------------------------------------------------------------
(* C18: after ee_disable, in both pin layouts and after any operations,    *)
(* every address and data line is an input whose pull-select bit is 0.     *)
(* It fails in the layout of board revision 2, where                       *)
(* address_output_disable leaves the output data register as the last      *)
(* address_output set it: the lines that were 1 are inputs pulled up.      *)
C18_DisabledLinesPulledDown ==
    ret.op = "disable" =>
        /\ ~gpio.a_out
        /\ ~gpio.d_out
        /\ gpio.a_odr = 0
        /\ gpio.d_odr = Zero32

-----------------------------------------------------------------------------
(* C19: when ee_verify returns, passing or failing at any step, ee_enabled *)
(* is false, the OE#, address and data drivers are off and WE# is high.    *)
C19_VerifyLeavesDisabled ==
    ret.op = "verify" =>
        /\ ~ee_enabled
        /\ ~gpio.oe_out
        /\ ~gpio.a_out
        /\ ~gpio.d_out
        /\ gpio.we = 1

(* A failure in the last step, the data pull-up, on a bus that was        *)
(* enabled (in the layout where the pull-down test then passes)           *)
C19_Witness ==
    /\ ret.op = "verify"
    /\ board_rev = 1
    /\ ret.was
    /\ ret.rc = 1
    /\ ret.env.d_low # {}
    /\ ~ee_enabled
    /\ ~gpio.oe_out

-----------------------------------------------------------------------------
TableRows == 1 .. Len(chip_blocks) - 1     \* the rows of the parts known

SameGeometry(cb, row) ==
    /\ cb.cb_bbnum = row.cb_bbnum
    /\ cb.cb_bsize = row.cb_bsize
    /\ cb.cb_ssize = row.cb_ssize

(* C20: get_chip_block_info returns an entry of the table: for the id of a *)
(* row, one with the boot block index, common block size and boot sector   *)
(* size of that row (boot block 0 for 0x00c22258); for any other id, the   *)
(* default bottom-boot entry (boot block 0, 32K common, 4K boot sector).    *)
C20_LookupByRow ==
    ret.op = "chip" =>
        /\ \E i \in DOMAIN chip_blocks : ret.cb = chip_blocks[i]
        /\ \A i \in TableRows :
               chip_blocks[i].cb_chipid = ret.chipid
                   => SameGeometry(ret.cb, chip_blocks[i])
        /\ (\A i \in TableRows : chip_blocks[i].cb_chipid # ret.chipid)
               => /\ ret.cb = chip_blocks[Len(chip_blocks)]
                  /\ ret.cb.cb_bbnum = 0
                  /\ ret.cb.cb_bsize = 32
                  /\ ret.cb.cb_ssize = 4
        /\ ret.chipid = <<\h00c2, \h2258>> => ret.cb.cb_bbnum = 0

(* A top-boot part of the table, found in its row *)
C20_Witness ==
    /\ ret.op = "chip"
    /\ ret.chipid = <<\h00c2, \h22D6>>
    /\ ret.cb.cb_bbnum = 15
    /\ ret.cb.cb_map = \h71

-----------------------------------------------------------------------------
ValidEraseMode(mode) == mode \in {MX_ERASE_MODE_CHIP, MX_ERASE_MODE_SECTOR}

(* C21: ee_erase returns what its documentation lists: 3 when the erase is *)
(* rejected, and otherwise 0 on success, 1 on erase timeout, 2 on erase    *)
(* failure.  It fails: the monitor returns 1 for failure and timeout       *)
(* alike, and an invalid mode returns 1; ee_erase never returns 2 or 3.    *)
C21_ReturnAsDocumented ==
    ret.op = "erase" =>
        IF ~ValidEraseMode(ret.mode) THEN ret.rc = 3
        ELSE /\ ret.rc = 0 <=> ee_status = EE_STATUS_NORMAL
             /\ ret.rc = 1 <=> ee_status = EE_STATUS_ERASE_TIMEOUT
             /\ ret.rc = 2 <=> ee_status = EE_STATUS_ERASE_FAILURE

-----------------------------------------------------------------------------
(* The operations that run no completion monitor *)
FrameOps == {"enable", "disable", "read", "cmd", "id", "status", "poll", "verify"}

-----------------------------------------------------------------------------
(* C23: the monitor's return value and ee_status agree: it returns 0       *)
(* exactly when it sets ee_status to Normal, and when it returns nonzero   *)
(* ee_status is the failure or the timeout status of the operation kind    *)
(* passed in, never a status of the other kind.                            *)
C23_ReturnAgreesWithStatus ==
    mon.pc = "left" =>
        /\ mon.rc = 0 <=> ee_status = EE_STATUS_NORMAL
        /\ mon.rc # 0 => ee_status \in {FailureKind(mon.mode), TimeoutKind(mon.mode)}

(* A program that ended with the failure bit set *)
C23_Witness ==
    /\ mon.pc = "left"
    /\ mon.mode = EE_MODE_PROGRAM
    /\ mon.rc = 1
    /\ ee_status = EE_STATUS_PROG_FAILURE

-----------------------------------------------------------------------------
(* The monitor left with a failure status *)
FailureDeclared ==
    mon.pc = "left" /\ ee_status \in {EE_STATUS_ERASE_FAILURE, EE_STATUS_PROG_FAILURE}

(* C24: the monitor declares a failure only when the failure bit (bit 5,   *)
(* or bit 21) was set on consecutive samples reaching the debounce count,  *)
(* that is, at the break of the loop with the last samples all showing     *)
(* the bit; one sample with the bit, or samples with the bit that do not   *)
(* follow one another, give no failure.                                    *)
C24_FailureOnlyDebounced ==
    FailureDeclared =>
        /\ mon.exit = "break"
        /\ \A i \in 1 .. 3 : FailBit(mon.h[i])

-----------------------------------------------------------------------------
(* Command sequences in the trace of the last operation.  A sequence opens *)
(* with the first unlock write (0x555, 0xAA) and runs through the writes   *)
(* that follow it without a read between them.                             *)
IsWrite(i) == bus[i].k = "W"
UnlockStarts ==
    {i \in DOMAIN bus : /\ IsWrite(i)
                        /\ bus[i].a = <<0, \h555>>
                        /\ bus[i].d = <<\h00aa, \h00aa>>}
SequenceOf(i) == {j \in i .. Len(bus) : \A k \in i .. j : IsWrite(k)}

(* C25: every multi-write command sequence (the three writes of ee_cmd,    *)
(* the four of a program, the five that open an erase with the chip or     *)
(* sector erase writes after them) runs inside one masked window: the      *)
(* interrupts are masked at each of its writes, and no unmask falls        *)
(* between its first write and its last.                                   *)
C25_SequenceInOneWindow ==
    \A i \in UnlockStarts :
        \A j \in SequenceOf(i) :
            bus[j].irq /\ bus[j].unmasks = bus[i].unmasks

(* A sector erase of one unit, six writes, after the three of ee_id's     *)
(* command                                                                 *)
C25_Witness ==
    /\ ret.op = "erase"
    /\ ret.mode = MX_ERASE_MODE_SECTOR
    /\ ret.rc = 0
    /\ \E i \in UnlockStarts : Cardinality(SequenceOf(i)) = 3
    /\ \E i \in UnlockStarts :
           /\ Cardinality(SequenceOf(i)) = 6
           /\ bus[i + 5].d = <<\h0030, \h0030>>

-----------------------------------------------------------------------------
(* The status reads of the completion monitor in the trace of the last     *)
(* operation: the reads of address 0 that follow a program or an erase     *)
(* sequence (four writes or more) with nothing but status reads between.   *)
IsStatusRead(i) == bus[i].k = "R" /\ bus[i].a = Zero32
StatusReads ==
    {i \in DOMAIN bus :
        /\ IsStatusRead(i)
        /\ \E s \in UnlockStarts :
               /\ Cardinality(SequenceOf(s)) >= 4
               /\ s < i
               /\ \A k \in s .. i - 1 : IsWrite(k) \/ IsStatusRead(k)}

(* C26: every status read of the completion monitor, after a program as    *)
(* after an erase, runs with the interrupts masked.  It fails after a      *)
(* program: ee_program_word unmasks before it calls the monitor.           *)
C26_StatusReadsMasked == \A i \in StatusReads : bus[i].irq

-----------------------------------------------------------------------------
(* The bus cycles of the last operation at which ee_cmd_mask is used: the  *)
(* writes (data & ee_cmd_mask), the status reads (status & ee_cmd_mask)    *)
(* and the reads that ee_write compares with what it wrote                 *)
MaskUses ==
    {i \in DOMAIN bus :
        \/ IsWrite(i)
        \/ i \in StatusReads
        \/ ret.op = "write" /\ bus[i].k = "R"}

(* C27: at every bus write, status read and verify comparison of every     *)
(* operation, from power-on on, ee_cmd_mask is the mask of the current     *)
(* ee_mode.  A step that leaves ee_mode is an operation, run in that mode. *)
(* It fails: the mask is 0 until the end of the first ee_enable, and stale *)
(* after ee_mode changes.                                                  *)
C27_MaskFollowsMode ==
    [][ee_mode' = ee_mode
           => \A i \in MaskUses' : bus'[i].mask = ModeMask(ee_mode)]_vars

-----------------------------------------------------------------------------
(* Properties of ee_cmd, under SpecCmd *)

(* The bus writes of the last operation as (address, data passed) pairs *)
Written == [i \in DOMAIN bus |-> <<bus[i].a, bus[i].d>>]

(* The command word with the opcode in both halves where the mode has a    *)
(* high half and the caller left it zero                                   *)
Duplicated(mode, cmd) ==
    IF mode \in {EE_MODE_32, EE_MODE_16_HIGH} /\ cmd[1] = 0
    THEN <<cmd[2], cmd[2]>> ELSE cmd

(* C28: ee_cmd issues exactly one bus write for reset/read (0xf0), CFI     *)
(* query (0x98), erase suspend (0xb0) and erase resume (0x30), and for     *)
(* every other command exactly three writes, (0x555, 0xAA), (0x2AA, 0x55), *)
(* (addr, cmd), in this order; in 32-bit and 16-bit high mode a command    *)
(* whose high half is zero is written with the opcode in both halves.      *)
(* Each write drives on the data lines the word passed, under ee_cmd_mask. *)
C28_CmdWrites ==
    ret.op = "cmd" =>
        /\ \A i \in DOMAIN bus : IsWrite(i) /\ bus[i].x = And32(bus[i].d, ret.mask)
        /\ Written =
               IF ret.cmd[2] \in {\hf0, \h98, \hb0, \h30}
               THEN << <<ret.addr, Duplicated(ret.width, ret.cmd)>> >>
               ELSE << <<<<0, \h555>>, <<\h00aa, \h00aa>>>>,
                       <<<<0, \h2aa>>, <<\h0055, \h0055>>>>,
                       <<ret.addr, Duplicated(ret.width, ret.cmd)>> >>

(* The autoselect command passed as 0x90 in 32-bit mode *)
C28_Witness ==
    /\ ret.op = "cmd"
    /\ ret.width = EE_MODE_32
    /\ ret.cmd = <<0, \h0090>>
    /\ Len(bus) = 3
    /\ bus[3].d = <<\h0090, \h0090>>
    /\ ee_enabled

-----------------------------------------------------------------------------
(* The erase sequences in the trace of the last operation *)
EraseSequences == {s \in UnlockStarts : Cardinality(SequenceOf(s)) >= 6}

(* The write at i is to address a, with the opcode op in every half that   *)
(* the mode of the operation uses                                          *)
InMode(mode, word) == And32(word, ModeMask(mode))
HasOpcode(i, a, op) ==
    /\ bus[i].a = a
    /\ InMode(ret.width, bus[i].d) = InMode(ret.width, <<op, op>>)

(* C29: the erase sequence on the bus is (0x555, 0xAA), (0x2AA, 0x55),     *)
(* (0x555, 0x80), (0x555, 0xAA), (0x2AA, 0x55), then (0x555, 0x10) in chip *)
(* mode or one (sector address, 0x30) per queued unit in sector mode, each *)
(* data word being that opcode in every active half.  It fails: the fifth  *)
(* write passes 0x00559055, which is 0x9055 in the low half.               *)
C29_EraseSequence ==
    ret.op = "erase" =>
        \A s \in EraseSequences :
            /\ HasOpcode(s, <<0, \h555>>, \haa)
            /\ HasOpcode(s + 1, <<0, \h2aa>>, \h55)
            /\ HasOpcode(s + 2, <<0, \h555>>, \h80)
            /\ HasOpcode(s + 3, <<0, \h555>>, \haa)
            /\ HasOpcode(s + 4, <<0, \h2aa>>, \h55)
            /\ IF ret.mode = MX_ERASE_MODE_CHIP
               THEN /\ Cardinality(SequenceOf(s)) = 6
                    /\ HasOpcode(s + 5, <<0, \h555>>, \h10)
               ELSE /\ Cardinality(SequenceOf(s)) = 5 + Len(ret.units)
                    /\ \A u \in DOMAIN ret.units :
                           HasOpcode(s + 4 + u, U32(ret.units[u].cmd), \h30)

-----------------------------------------------------------------------------
(* Properties of ee_verify's pull-up tests, under SpecBus *)

(* The socket holds some line high or low *)
Faulty(env) == env.a_high \cup env.a_low \cup env.d_high \cup env.d_low # {}

(* The passes of a whole test: the address lines A0..A19, the data lines   *)
(* D0..D15, each in order                                                  *)
WholeTest(pulls, from, kind, width) ==
    \A i \in 1 .. width :
        pulls[from + i].kind = kind /\ pulls[from + i].pass = i - 1

(* C30, as stated: ee_verify aborts at the first wiring fault: it returns  *)
(* nonzero, and after the pass that found a fault no further line is       *)
(* pulled up or tested.                                                    *)
C30_AbortsAtFirstFault ==
    (ret.op = "verify" /\ Faulty(ret.env))
        => /\ ret.rc # 0
           /\ \A i \in 1 .. Len(ret.pulls) - 1 : ~ret.pulls[i].failed

(* C30, amended: ee_verify returns nonzero on a socket with a fault.  A    *)
(* line found high in the pull-down test aborts at once, with no line      *)
(* pulled up.  A fault in the address pull-up test ends the polling of     *)
(* that line, but all twenty address lines are still pulled up and tested  *)
(* before the routine aborts, without the data test; the data test runs,   *)
(* over all sixteen data lines, exactly when no address pass found a       *)
(* fault.  The routine returns nonzero exactly when it aborted in the      *)
(* pull-down test or some pass found a fault.                              *)
C30_AbortsAfterWholeTest ==
    ret.op = "verify" =>
        /\ Faulty(ret.env) => ret.rc # 0
        /\ Len(ret.pulls) \in {0, 20, 36}
        /\ Len(ret.pulls) >= 20 => WholeTest(ret.pulls, 0, "A", 20)
        /\ Len(ret.pulls) = 36
               <=> /\ Len(ret.pulls) >= 20
                   /\ \A i \in 1 .. 20 : ~ret.pulls[i].failed
        /\ Len(ret.pulls) = 36 => WholeTest(ret.pulls, 20, "D", 16)
        /\ ret.rc # 0
               <=> \/ ret.pulls = <<>>
                   \/ \E i \in DOMAIN ret.pulls : ret.pulls[i].failed

(* A5 held low: its pass finds the fault, and A6..A19 are tested after it *)
C30_Witness ==
    /\ ret.op = "verify"
    /\ ret.env.a_low = {5}
    /\ ret.rc = 1
    /\ Len(ret.pulls) = 20
    /\ ret.pulls[6].failed
    /\ ret.pulls[20].pass = 19

-----------------------------------------------------------------------------
(* Properties of ee_snoop, under SpecSnoop *)

Snooping == snoop.pc \in {"loop", "done"}

(* C31: the capture ring of ee_snoop keeps 0 <= cons, prod < 32; an entry  *)
(* is pushed only when the address sampled differs from the one captured   *)
(* before it; a push never overwrites an entry not yet printed, so the     *)
(* ring holds, from cons to prod, exactly the captures that were not       *)
(* printed (a sample that finds the ring full is not stored); and the      *)
(* entries are printed in the order they were captured.                    *)
C31_RingKept ==
    Snooping =>
        /\ snoop.cons \in 0 .. CAPTURES - 1
        /\ snoop.prod \in 0 .. CAPTURES - 1
        /\ \A i \in 1 .. Len(snoop.captured) - 1 :
               snoop.captured[i] # snoop.captured[i + 1]
        /\ Len(snoop.out) <= Len(snoop.captured)
        /\ snoop.out = SubSeq(snoop.captured, 1, Len(snoop.out))
        /\ Pending(snoop)
               = SubSeq(snoop.captured, Len(snoop.out) + 1, Len(snoop.captured))

(* The ring full, after prod went round: 33 captures, two of them printed, *)
(* 31 waiting, and the next sample would find the ring full                *)
C31_Witness ==
    /\ Snooping
    /\ Len(snoop.captured) = 33
    /\ Len(snoop.out) = 2
    /\ snoop.prod = 1
    /\ snoop.cons = 2
    /\ FifoFull(NextSlot(snoop.prod), snoop.cons)

-----------------------------------------------------------------------------
(* Termination of ee_snoop, under SpecSnoopLive *)

(* C32: once the break signal is pending, and it stays pending, ee_snoop   *)
(* eventually terminates, whatever the lines do, also with OE# held        *)
(* asserted while the ring is full.  It fails: a sample that finds the     *)
(* ring full takes the continue that skips the test of the break signal.   *)
C32_BreakEndsSnoop ==
    (snoop.pc = "loop" /\ snoop.brk) ~> (snoop.pc = "done")

-----------------------------------------------------------------------------
(* C33: on a sound socket (every pulled line reads back its pull value, no *)
(* line held high or low) ee_verify returns 0 from every reachable driver  *)
(* state and in both pin layouts, also right after an earlier ee_verify or *)
(* after bus accesses at nonzero addresses.  It fails in the layout of     *)
(* board revision 2, where the address lines stay pulled up after          *)
(* ee_disable and the pull-down test reads them high.                      *)
C33_SoundSocketPasses ==
    (ret.op = "verify" /\ ~Faulty(ret.env)) => ret.rc = 0

-----------------------------------------------------------------------------
(* C34: whenever ee_enabled is false the address drivers and the OE#       *)
(* driver are off; in particular no sequence of operations reaches a state *)
(* with ee_enabled false, ee_last_access cleared and the address lines     *)
(* driven.  It fails: ee_read_word turns the address drivers on and        *)
(* ee_read does not call ee_enable, so a read on the disabled bus leaves   *)
(* them on, and with ee_last_access at 0 ee_poll never turns them off.     *)
C34_DisabledMeansReleased ==
    ~ee_enabled => ~gpio.a_out /\ ~gpio.oe_out

-----------------------------------------------------------------------------
(* Properties of the pins during the bus cycles, under SpecPins *)

OeLow == gpio.oe_out /\ gpio.oe = 0
WeLow == gpio.we = 0

(* The pins that ee_read_word or ee_write_word, taken as one step, leave   *)
(* from the pins the cycle under way started from                          *)
CycleLeaves ==
    IF ret.k = "R"
    THEN ee_read_word([M EXCEPT !.gpio = ret.from], ret.addr).m.gpio
    ELSE ee_write_word([M EXCEPT !.gpio = ret.from], ret.addr, ret.data).gpio

(* C35: after ee_enable, through any sequence of read and write cycles     *)
(* (all that reads, writes, commands, programs and erases do to the pins), *)
(* the data bus is never driven while OE# is driven low, and WE# and OE#   *)
(* are never low together; each cycle ends with WE# high, OE# high or      *)
(* released and the data drivers off, on the pins the operations' own      *)
(* cycles end on.                                                          *)
C35_PinsSafe ==
    ret.op \in {"enable", "cycle"} =>
        /\ ~(gpio.d_out /\ OeLow)
        /\ ~(WeLow /\ OeLow)
        /\ CycleOver =>
               /\ gpio.we = 1
               /\ gpio.oe = 1 \/ ~gpio.oe_out
               /\ ~gpio.d_out
        /\ (ret.op = "cycle" /\ CycleOver) => gpio = CycleLeaves

(* In the middle of a write cycle that follows a read cycle: WE# low, the  *)
(* data driven, OE# driven high                                            *)
C35_Witness ==
    /\ ret.op = "cycle"
    /\ ret.k = "W"
    /\ ret.pc = 6
    /\ ~ret.from.oe_out
    /\ WeLow
    /\ gpio.d_out
    /\ gpio.oe_out
    /\ gpio.oe = 1

====
